---- MODULE Spec2Model ----
(***************************************************************************)
(* Context persistence and synchronisation layer of the MCP client:        *)
(* the storage backend, the two LocalStorageService implementations        *)
(* (truncating and chunking), the ContextService, the MCPContextClient     *)
(* and the document hooks that drive them.                                 *)
(***************************************************************************)
EXTENDS Integers, Sequences, FiniteSets, TLC

(***************************************************************************)
(* Strings.  A string is a sequence of runs [c, n]: n copies of the plain  *)
(* character c, or the first n characters of the literal named c.  Length, *)
(* substring(0, k), concatenation and startsWith are computed on runs, so  *)
(* contents of a megabyte are ordinary values.                             *)
(***************************************************************************)
Run(c, n) == [c |-> c, n |-> n]

Lit(c, n) == IF n = 0 THEN <<>> ELSE <<Run(c, n)>>

EmptyStr == <<>>

\* JavaScript's undefined for a string-valued property: no string has a run of length 0.
Undefined == <<Run("undefined", 0)>>

PlainChars == {"a", "b"}

RECURSIVE StrLen(_)
StrLen(s) ==
    IF s = <<>> THEN 0 ELSE Head(s).n + StrLen(Tail(s))

\* !s for a string-or-undefined value
Falsy(s) == s = EmptyStr \/ s = Undefined

RECURSIVE Substring0(_, _)
Substring0(s, k) ==
    IF s = <<>> \/ k <= 0 THEN <<>>
    ELSE IF Head(s).n <= k
         THEN <<Head(s)>> \o Substring0(Tail(s), k - Head(s).n)
         ELSE <<Run(Head(s).c, k)>>

Concat(s, t) ==
    IF s # <<>> /\ t # <<>> /\ s[Len(s)].c = Head(t).c /\ Head(t).c \in PlainChars
    THEN SubSeq(s, 1, Len(s) - 1) \o <<Run(Head(t).c, s[Len(s)].n + Head(t).n)>> \o Tail(t)
    ELSE s \o t

\* the string literals of LocalStorageService.ts
TruncationMarker == Lit("\\n[CONTENT TRUNCATED DUE TO SIZE LIMITATIONS]", 44)

NoContentPlaceholder == Lit("[No content available]", 22)

RemovedPlaceholder(documentName) ==
    Concat(Concat(Lit("[Content removed due to storage limitations. Document: ", 55),
                  documentName), Lit("]", 1))

KeyPrefixT == Lit("mcp-context-", 12)

KeyPrefixC == Lit("mcp_context_", 12)

DocRefMarker == Lit("__DOC_REF__", 11)

\* the number of decimal digits of n, for `${n}` in a template string
RECURSIVE Digits(_)
Digits(n) == IF n < 10 THEN 1 ELSE 1 + Digits(n \div 10)

TooLargePlaceholder(content) ==
    LET n == IF content = Undefined THEN 0 ELSE StrLen(content)
    IN  Concat(Concat(Lit("Content too large for storage (", 31),
                      <<Run(ToString(n), Digits(n))>>), Lit(" bytes)", 7))

ReferenceLost(docKey) == Concat(Lit("Content reference lost: ", 24), docKey)

StartsWith(s, p) == Len(s) >= Len(p) /\ SubSeq(s, 1, Len(p)) = p

\* s.replace(p, '') for a string that starts with p
DropPrefix(s, p) == SubSeq(s, Len(p) + 1, Len(s))

(***************************************************************************)
(* MCPContext and its JSON form.  JSON.stringify omits a property whose    *)
(* value is undefined; JSON.parse gives undefined for an absent property.  *)
(***************************************************************************)
NoCtx == [null |-> TRUE]

Doc(id, name, type, content) ==
    [documentName |-> name, content |-> content, documentId |-> id, documentType |-> type]

Pair(k, v) == [k |-> k, v |-> v]

OptPair(k, v) == IF v = Undefined THEN <<>> ELSE <<Pair(k, v)>>

JsonDoc(d) ==
    <<Pair("documentId", d.documentId), Pair("documentName", d.documentName),
      Pair("documentType", d.documentType)>> \o OptPair("content", d.content)

JsonStringify(ctx) ==
    [conversationId  |-> ctx.conversationId,
     documentContext |-> [i \in 1..Len(ctx.documentContext) |-> JsonDoc(ctx.documentContext[i])],
     messages        |-> ctx.messages,
     modelPreference |-> OptPair("modelPreference", ctx.modelPreference),
     metisActive     |-> ctx.metisActive]

PairValue(ps, k) ==
    IF \E i \in 1..Len(ps) : ps[i].k = k
    THEN ps[CHOOSE i \in 1..Len(ps) : ps[i].k = k].v
    ELSE Undefined

ParseDoc(ps) ==
    Doc(PairValue(ps, "documentId"), PairValue(ps, "documentName"),
        PairValue(ps, "documentType"), PairValue(ps, "content"))

JsonParse(j) ==
    [conversationId  |-> j.conversationId,
     documentContext |-> [i \in 1..Len(j.documentContext) |-> ParseDoc(j.documentContext[i])],
     messages        |-> j.messages,
     modelPreference |-> PairValue(j.modelPreference, "modelPreference"),
     metisActive     |-> j.metisActive]

\* the number of characters of the serialized text
JsonStrSize(s) ==
    StrLen(s) + 2 + (IF \E i \in 1..Len(s) : s[i].c = TruncationMarker[1].c THEN 1 ELSE 0)

RECURSIVE PairsSize(_)
PairsSize(ps) ==
    IF ps = <<>> THEN 0
    ELSE 4 + Len(Head(ps).k) + JsonStrSize(Head(ps).v) + PairsSize(Tail(ps))

RECURSIVE DocsSize(_)
DocsSize(ds) ==
    IF ds = <<>> THEN 0 ELSE 2 + PairsSize(Head(ds)) + DocsSize(Tail(ds))

RECURSIVE MessagesSize(_)
MessagesSize(ms) ==
    IF ms = <<>> THEN 0 ELSE 1 + JsonStrSize(Head(ms)) + MessagesSize(Tail(ms))

JsonSize(j) ==
    2 + (17 + JsonStrSize(j.conversationId))
      + (20 + DocsSize(j.documentContext))
      + (13 + MessagesSize(j.messages))
      + PairsSize(j.modelPreference)
      + (14 + (IF j.metisActive THEN 4 ELSE 5))

(***************************************************************************)
(* State.                                                                  *)
(***************************************************************************)
VARIABLES
    store,      \* the storage backend's entries: key -> value
    backend,    \* the Storage object handed to the service (or its absence)
    variant,    \* which LocalStorageService is in use: "truncating" or "chunking"
    op,         \* the call that ran last, with its result
    tabs,       \* per browser tab: the client, its context service and the document hook
    provider,   \* the document provider: document -> the text fetchDocument resolves to
    calls,      \* the number of calls made on the tabs so far
    listeners   \* FileWatcher.listeners: fileId -> its listeners, in the order they were added

clientVars == <<tabs, provider, calls, listeners>>

storeVars == <<store, backend, variant, op, tabs, provider, calls, listeners>>

MaxDocumentSize == 1048576

(***************************************************************************)
(* The storage backend (a Storage object: getItem, setItem, removeItem).   *)
(* A limited backend's setItem rejects a value larger than backend.quota    *)
(* with a QuotaExceededError; backend.mode names a misbehaving backend.    *)
(***************************************************************************)
Null == [kind |-> "null"]

JsonValue(j) == [kind |-> "json", json |-> j]

TextValue(s) == [kind |-> "text", text |-> s]

Garbage == [kind |-> "garbage"]

ValueSize(v) ==
    CASE v.kind = "json" -> JsonSize(v.json)
      [] v.kind = "text" -> StrLen(v.text)
      [] OTHER -> 1

EmptyStore == [k \in {} |-> Null]

\* a setItem that leaves a key it finds as it is
PutMutantKeepsFirst(st, k, v) ==
    IF k \in DOMAIN st THEN st
    ELSE [x \in (DOMAIN st) \cup {k} |-> IF x = k THEN v ELSE st[x]]

Put(st, k, v) == [x \in (DOMAIN st) \cup {k} |-> IF x = k THEN v ELSE st[x]]

Del(st, k) == [x \in (DOMAIN st) \ {k} |-> st[x]]

\* setItem: outcome "ok", "quota" (DOMException QuotaExceededError) or "error" (another exception)
BackendSetItem(st, k, v) ==
    IF backend.mode = "setThrows" THEN [outcome |-> "error", store |-> st]
    ELSE IF backend.limited /\ ValueSize(v) > backend.quota
         THEN [outcome |-> "quota", store |-> st]
         ELSE [outcome |-> "ok", store |-> Put(st, k, v)]

\* getItem: the value, Null when the key is absent; threw when the backend throws
BackendGetItem(st, k) ==
    IF backend.mode = "getThrows" THEN [threw |-> TRUE, value |-> Null]
    ELSE [threw |-> FALSE, value |-> IF k \in DOMAIN st THEN st[k] ELSE Null]

BackendRemoveItem(st, k) ==
    CASE backend.mode = "removeThrows" -> [threw |-> TRUE, store |-> st]
      [] backend.mode = "removeNoop"   -> [threw |-> FALSE, store |-> st]
      [] OTHER                         -> [threw |-> FALSE, store |-> Del(st, k)]

\* !item for what getItem returned: null or the empty string
NoItem(v) == v = Null \/ (v.kind = "text" /\ v.text = EmptyStr)

\* JSON.parse throws on anything that is not the serialized form of a context
ParseThrows(v) == v.kind # "json"

(***************************************************************************)
(* LocalStorageService, truncating implementation.                         *)
(***************************************************************************)
KeyT(conversationId) == Concat(KeyPrefixT, conversationId)

\* mutant: the size test off by one (>= for >)
PrepareDocMutantGe(doc) ==
    IF Falsy(doc.content) THEN [doc EXCEPT !.content = NoContentPlaceholder]
    ELSE IF StrLen(doc.content) >= MaxDocumentSize
         THEN [doc EXCEPT !.content =
                 Concat(Substring0(doc.content, MaxDocumentSize), TruncationMarker)]
         ELSE doc

\* mutant: the marker is appended to the whole content, nothing is cut
PrepareDocMutantKeepsAll(doc) ==
    IF Falsy(doc.content) THEN [doc EXCEPT !.content = NoContentPlaceholder]
    ELSE IF StrLen(doc.content) > MaxDocumentSize
         THEN [doc EXCEPT !.content = Concat(doc.content, TruncationMarker)]
         ELSE doc

PrepareDoc(doc) ==
    IF Falsy(doc.content) THEN [doc EXCEPT !.content = NoContentPlaceholder]
    ELSE IF StrLen(doc.content) > MaxDocumentSize
         THEN [doc EXCEPT !.content =
                 Concat(Substring0(doc.content, MaxDocumentSize), TruncationMarker)]
         ELSE doc

\* mutant: documents without content are left out instead of given a placeholder
PrepareContextMutantDropsEmpty(context) ==
    LET contextCopy == JsonParse(JsonStringify(context))
    IN  [contextCopy EXCEPT !.documentContext =
            SelectSeq([i \in 1..Len(contextCopy.documentContext) |->
                          PrepareDoc(contextCopy.documentContext[i])],
                      LAMBDA d : d.content # NoContentPlaceholder)]

\* mutant: the copy keeps the documents and loses the message history
PrepareContextMutantLosesMessages(context) ==
    LET contextCopy == JsonParse(JsonStringify(context))
    IN  [contextCopy EXCEPT !.messages = <<>>,
                            !.documentContext =
            [i \in 1..Len(contextCopy.documentContext) |->
                PrepareDoc(contextCopy.documentContext[i])]]

PrepareContextForStorage(context) ==
    LET contextCopy == JsonParse(JsonStringify(context))
    IN  [contextCopy EXCEPT !.documentContext =
            [i \in 1..Len(contextCopy.documentContext) |->
                PrepareDoc(contextCopy.documentContext[i])]]

\* one setItem of saveContext, with the record of the attempt
SetAttempt(st, stage, k, v) ==
    LET r == BackendSetItem(st, k, v)
    IN  [store |-> r.store, outcome |-> r.outcome,
         entry |-> [stage |-> stage, key |-> k, size |-> ValueSize(v), outcome |-> r.outcome]]

MinimalContextT(context) ==
    [context EXCEPT !.documentContext =
        [i \in 1..Len(context.documentContext) |->
            [context.documentContext[i] EXCEPT
                !.content = RemovedPlaceholder(context.documentContext[i].documentName)]]]

BareContext(context) == [context EXCEPT !.documentContext = <<>>]

\* mutant: the placeholder step is skipped
HandleStorageErrorMutantBareFirst(st, conversationId, context, error) ==
    IF error = "quota"
    THEN LET b == SetAttempt(st, "bare", KeyT(conversationId),
                             JsonValue(JsonStringify(BareContext(context))))
         IN  [store |-> b.store, writes |-> <<b.entry>>]
    ELSE [store |-> st, writes |-> <<>>]

\* mutant: every failure of the full write starts the fallback, not only a quota error
HandleStorageErrorMutantAnyError(st, conversationId, context, error) ==
    LET a == SetAttempt(st, "placeholder", KeyT(conversationId),
                        JsonValue(JsonStringify(MinimalContextT(context))))
    IN  IF a.outcome = "ok"
        THEN [store |-> a.store, writes |-> <<a.entry>>]
        ELSE LET b == SetAttempt(st, "bare", KeyT(conversationId),
                                 JsonValue(JsonStringify(BareContext(context))))
             IN  [store |-> b.store, writes |-> <<a.entry, b.entry>>]

HandleStorageError(st, conversationId, context, error) ==
    IF error = "quota"
    THEN LET a == SetAttempt(st, "placeholder", KeyT(conversationId),
                             JsonValue(JsonStringify(MinimalContextT(context))))
         IN  IF a.outcome = "ok"
             THEN [store |-> a.store, writes |-> <<a.entry>>]
             ELSE LET b == SetAttempt(st, "bare", KeyT(conversationId),
                                      JsonValue(JsonStringify(BareContext(context))))
                  IN  [store |-> b.store, writes |-> <<a.entry, b.entry>>]
    ELSE [store |-> st, writes |-> <<>>]

\* the read-back after the full write: diagnostic only
VerifyStoredContext(st, k, originalContext) ==
    LET g == BackendGetItem(st, k)
    IN  IF g.threw \/ NoItem(g.value) \/ ParseThrows(g.value) THEN "throws"
        ELSE LET saved == JsonParse(g.value.json)
             IN  IF Len(saved.documentContext) # Len(originalContext.documentContext)
                 THEN "countMismatch"
                 ELSE IF \E i \in 1..Len(saved.documentContext) :
                            \E j \in 1..Len(originalContext.documentContext) :
                               /\ originalContext.documentContext[j].documentId
                                    = saved.documentContext[i].documentId
                               /\ StrLen(originalContext.documentContext[j].content)
                                    # StrLen(saved.documentContext[i].content)
                      THEN "contentLoss"
                      ELSE "verified"

\* a saveContext that does not look whether there is a storage
SaveContextMutantNoGuard(st, conversationId, context) ==
    LET hasDocs == Len(context.documentContext) > 0
        contextForStorage == IF hasDocs THEN PrepareContextForStorage(context)
                             ELSE context
        a == SetAttempt(st, "full", KeyT(conversationId),
                        JsonValue(JsonStringify(contextForStorage)))
    IN  [store |-> a.store, writes |-> <<a.entry>>, verify |-> "none", context |-> context]

\* context in the result: the caller's object after the call; the service works
\* on copies (the JSON copy of prepareContextForStorage, the spread copies of
\* handleStorageError) and assigns to no property of the caller's object
SaveContextT(st, conversationId, context) ==
    IF ~backend.present THEN [store |-> st, writes |-> <<>>, verify |-> "none", context |-> context]
    ELSE LET hasDocs == Len(context.documentContext) > 0
             contextForStorage == IF hasDocs THEN PrepareContextForStorage(context)
                                  ELSE context
             a == SetAttempt(st, "full", KeyT(conversationId),
                             JsonValue(JsonStringify(contextForStorage)))
         IN  IF a.outcome = "ok"
             THEN [store |-> a.store, writes |-> <<a.entry>>,
                   verify |-> IF hasDocs
                              THEN VerifyStoredContext(a.store, KeyT(conversationId),
                                                       contextForStorage)
                              ELSE "none",
                   context |-> context]
             ELSE LET h == HandleStorageError(st, conversationId, context, a.outcome)
                  IN  [store |-> h.store, writes |-> <<a.entry>> \o h.writes,
                       verify |-> "none", context |-> context]

\* the body of loadContext's try block: threw, or the value returned
LoadContextBodyT(st, conversationId) ==
    LET g == BackendGetItem(st, KeyT(conversationId))
    IN  IF g.threw THEN [threw |-> TRUE, ret |-> NoCtx]
        ELSE IF NoItem(g.value) THEN [threw |-> FALSE, ret |-> NoCtx]
        ELSE IF ParseThrows(g.value) THEN [threw |-> TRUE, ret |-> NoCtx]
        ELSE [threw |-> FALSE, ret |-> JsonParse(g.value.json)]

\* mutant: no try/catch around the body
LoadContextMutantNoCatch(st, conversationId) ==
    IF ~backend.present THEN [threw |-> FALSE, ret |-> NoCtx]
    ELSE LoadContextBodyT(st, conversationId)

LoadContextT(st, conversationId) ==
    IF ~backend.present THEN [threw |-> FALSE, ret |-> NoCtx]
    ELSE LET r == LoadContextBodyT(st, conversationId)
         IN  IF r.threw THEN [threw |-> FALSE, ret |-> NoCtx] ELSE r

RemoveContextT(st, conversationId) ==
    IF ~backend.present THEN [store |-> st, ret |-> FALSE, threw |-> FALSE]
    ELSE LET r == BackendRemoveItem(st, KeyT(conversationId))
             g == BackendGetItem(r.store, KeyT(conversationId))
         IN  IF r.threw THEN [store |-> st, ret |-> FALSE, threw |-> FALSE]
             ELSE IF g.threw THEN [store |-> r.store, ret |-> FALSE, threw |-> FALSE]
             ELSE [store |-> r.store, ret |-> g.value = Null, threw |-> FALSE]

(***************************************************************************)
(* LocalStorageService, chunking implementation.                           *)
(***************************************************************************)
KeyC(conversationId) == Concat(KeyPrefixC, conversationId)

DocKeyC(conversationId, documentId) ==
    Concat(Concat(KeyC(conversationId), Lit("_doc_", 5)), documentId)

MinimalKeyC(conversationId) == Concat(KeyC(conversationId), Lit("_minimal", 8))

IsDocRef(content) == ~Falsy(content) /\ StartsWith(content, DocRefMarker)

\* the string getItem returns for a stored value
TextOf(v) == IF v.kind = "text" THEN v.text ELSE Lit(v.kind, ValueSize(v))

\* the loop of saveContext over the documents of contextCopy, from document i on:
\* a large content goes under its own key and is replaced by a reference
RECURSIVE ChunkDocs(_, _, _, _)
ChunkDocs(st, conversationId, docs, i) ==
    IF i > Len(docs) THEN [store |-> st, outcome |-> "ok", docs |-> docs, writes |-> <<>>]
    ELSE LET doc == docs[i]
         IN  IF ~Falsy(doc.content) /\ 2 * StrLen(doc.content) > MaxDocumentSize
             THEN LET docKey == DocKeyC(conversationId, doc.documentId)
                      a == SetAttempt(st, "doc", docKey, TextValue(doc.content))
                  IN  IF a.outcome # "ok"
                      THEN [store |-> a.store, outcome |-> a.outcome, docs |-> docs,
                            writes |-> <<a.entry>>]
                      ELSE LET rest == ChunkDocs(a.store, conversationId,
                                          [docs EXCEPT ![i].content = Concat(DocRefMarker, docKey)],
                                          i + 1)
                           IN  [rest EXCEPT !.writes = <<a.entry>> \o @]
             ELSE ChunkDocs(st, conversationId, docs, i + 1)

MinimalContextC(context) ==
    [context EXCEPT !.documentContext =
        [i \in 1..Len(context.documentContext) |->
            [context.documentContext[i] EXCEPT
                !.content = TooLargePlaceholder(context.documentContext[i].content)]]]

\* the catch block of saveContext
SaveFallbackC(st, conversationId, context, error) ==
    IF error = "quota"
    THEN LET m == SetAttempt(st, "minimal", MinimalKeyC(conversationId),
                             JsonValue(JsonStringify(MinimalContextC(context))))
         IN  [store |-> m.store, writes |-> <<m.entry>>]
    ELSE [store |-> st, writes |-> <<>>]

\* context in the result: the caller's object after the call; the references
\* are written into contextCopy, the placeholders into the spread copy
SaveContextC(st, conversationId, context) ==
    IF ~backend.present THEN [store |-> st, writes |-> <<>>, verify |-> "none", context |-> context]
    ELSE IF Len(context.documentContext) > 0
    THEN LET contextCopy == JsonParse(JsonStringify(context))
             c == ChunkDocs(st, conversationId, contextCopy.documentContext, 1)
         IN  IF c.outcome # "ok"
             THEN LET f == SaveFallbackC(c.store, conversationId, context, c.outcome)
                  IN  [store |-> f.store, writes |-> c.writes \o f.writes, verify |-> "none", context |-> context]
             ELSE LET a == SetAttempt(c.store, "full", KeyC(conversationId),
                              JsonValue(JsonStringify(
                                  [contextCopy EXCEPT !.documentContext = c.docs])))
                  IN  IF a.outcome = "ok"
                      THEN [store |-> a.store, writes |-> c.writes \o <<a.entry>>,
                            verify |-> "none", context |-> context]
                      ELSE LET f == SaveFallbackC(a.store, conversationId, context, a.outcome)
                           IN  [store |-> f.store,
                                writes |-> c.writes \o <<a.entry>> \o f.writes,
                                verify |-> "none", context |-> context]
    ELSE LET a == SetAttempt(st, "full", KeyC(conversationId),
                             JsonValue(JsonStringify(context)))
         IN  IF a.outcome = "ok"
             THEN [store |-> a.store, writes |-> <<a.entry>>, verify |-> "none", context |-> context]
             ELSE LET f == SaveFallbackC(a.store, conversationId, context, a.outcome)
                  IN  [store |-> f.store, writes |-> <<a.entry>> \o f.writes,
                       verify |-> "none", context |-> context]

\* loadContext's resolution of one document's content
ResolveDocC(st, doc) ==
    IF IsDocRef(doc.content)
    THEN LET docKey == DropPrefix(doc.content, DocRefMarker)
             g == BackendGetItem(st, docKey)
         IN  IF g.threw THEN [threw |-> TRUE, doc |-> doc]
             ELSE IF NoItem(g.value)
                  THEN [threw |-> FALSE, doc |-> [doc EXCEPT !.content = ReferenceLost(docKey)]]
                  ELSE [threw |-> FALSE, doc |-> [doc EXCEPT !.content = TextOf(g.value)]]
    ELSE [threw |-> FALSE, doc |-> doc]

LoadContextBodyC(st, conversationId) ==
    LET g == BackendGetItem(st, KeyC(conversationId))
    IN  IF g.threw THEN [threw |-> TRUE, ret |-> NoCtx]
        ELSE IF NoItem(g.value) THEN [threw |-> FALSE, ret |-> NoCtx]
        ELSE IF ParseThrows(g.value) THEN [threw |-> TRUE, ret |-> NoCtx]
        ELSE LET context == JsonParse(g.value.json)
                 n == Len(context.documentContext)
             IN  IF \E i \in 1..n : ResolveDocC(st, context.documentContext[i]).threw
                 THEN [threw |-> TRUE, ret |-> NoCtx]
                 ELSE [threw |-> FALSE,
                       ret |-> [context EXCEPT !.documentContext =
                                  [i \in 1..n |-> ResolveDocC(st, context.documentContext[i]).doc]]]

LoadContextC(st, conversationId) ==
    IF ~backend.present THEN [threw |-> FALSE, ret |-> NoCtx]
    ELSE LET r == LoadContextBodyC(st, conversationId)
         IN  IF r.threw THEN [threw |-> FALSE, ret |-> NoCtx] ELSE r

\* removeContext's loop over the documents of the stored context, from document i on
RECURSIVE RemoveDocRefsC(_, _, _)
RemoveDocRefsC(st, docs, i) ==
    IF i > Len(docs) THEN [threw |-> FALSE, store |-> st]
    ELSE IF IsDocRef(docs[i].content)
         THEN LET r == BackendRemoveItem(st, DropPrefix(docs[i].content, DocRefMarker))
              IN  IF r.threw THEN r ELSE RemoveDocRefsC(r.store, docs, i + 1)
         ELSE RemoveDocRefsC(st, docs, i + 1)

RemoveContextC(st, conversationId) ==
    IF ~backend.present THEN [store |-> st, ret |-> FALSE, threw |-> FALSE]
    ELSE LET key == KeyC(conversationId)
             g == BackendGetItem(st, key)
         IN  IF g.threw THEN [store |-> st, ret |-> FALSE, threw |-> FALSE]
             ELSE IF ~NoItem(g.value) /\ ParseThrows(g.value)
             THEN [store |-> st, ret |-> FALSE, threw |-> FALSE]
             ELSE LET d == IF NoItem(g.value) THEN [threw |-> FALSE, store |-> st]
                           ELSE RemoveDocRefsC(st, JsonParse(g.value.json).documentContext, 1)
                      r1 == BackendRemoveItem(d.store, key)
                      r2 == BackendRemoveItem(r1.store, MinimalKeyC(conversationId))
                  IN  IF d.threw THEN [store |-> d.store, ret |-> FALSE, threw |-> FALSE]
                      ELSE IF r1.threw THEN [store |-> r1.store, ret |-> FALSE, threw |-> FALSE]
                      ELSE IF r2.threw THEN [store |-> r2.store, ret |-> FALSE, threw |-> FALSE]
                      ELSE [store |-> r2.store, ret |-> TRUE, threw |-> FALSE]

(***************************************************************************)
(* The ContextStorageService in use.                                       *)
(***************************************************************************)
MainKey(conversationId) ==
    IF variant = "truncating" THEN KeyT(conversationId) ELSE KeyC(conversationId)

\* a saveContext that prepares the caller's object itself, not a copy of it
SaveContextMutantInPlace(st, conversationId, context) ==
    LET r == IF variant = "truncating" THEN SaveContextT(st, conversationId, context)
             ELSE SaveContextC(st, conversationId, context)
    IN  [r EXCEPT !.context = IF Len(context.documentContext) > 0
                              THEN PrepareContextForStorage(context) ELSE context]

SaveContext(st, conversationId, context) ==
    IF variant = "truncating" THEN SaveContextT(st, conversationId, context)
    ELSE SaveContextC(st, conversationId, context)

LoadContext(st, conversationId) ==
    IF variant = "truncating" THEN LoadContextT(st, conversationId)
    ELSE LoadContextC(st, conversationId)

RemoveContext(st, conversationId) ==
    IF variant = "truncating" THEN RemoveContextT(st, conversationId)
    ELSE RemoveContextC(st, conversationId)

(***************************************************************************)
(* Inputs: conversations, documents, contents, contexts, backends.         *)
(***************************************************************************)
MaxDocs == 2

Conv1 == Lit("c1", 2)

Conv2 == Lit("c2", 2)

ConvIds == {Conv1, Conv2}

DocOrder == <<"d1", "d2", "d3">>

DocNames == {DocOrder[i] : i \in 1..Len(DocOrder)}

DocIdOf(d) == Lit(d, 2)

DocNameOf(d) == Concat(Lit(d, 2), Lit(".title", 6))

DocTypeOf(d) == Lit("pdf", 3)

ShortContent == Lit("a", 1)

AtMaxContent == Lit("a", MaxDocumentSize)

OverMaxContent == Concat(Lit("a", MaxDocumentSize), Lit("b", 1))

FarOverMaxContent == Concat(Lit("a", MaxDocumentSize), Lit("b", MaxDocumentSize))

\* contents a stored or in-memory document can hold, the degraded ones included
Contents ==
    {EmptyStr, Undefined, ShortContent, AtMaxContent, OverMaxContent, FarOverMaxContent}

MakeDoc(d, content) == Doc(DocIdOf(d), DocNameOf(d), DocTypeOf(d), content)

\* the documentContext lists of at most n entries, document IDs distinct
RECURSIVE DocLists(_, _, _)
DocLists(n, names, contents) ==
    IF n = 0 THEN {<<>>}
    ELSE LET shorter == DocLists(n - 1, names, contents)
         IN  shorter \cup
             { Append(l, MakeDoc(d, c)) :
                 l \in {x \in shorter : Len(x) = n - 1},
                 d \in names, c \in contents }

UniqueIds(l) ==
    \A i, j \in 1..Len(l) : l[i].documentId = l[j].documentId => i = j

\* the documents of l in the order of DocOrder (the storage service treats the
\* documents of a context one by one, whatever their order)
InDocOrder(l) ==
    \A i, j \in 1..Len(l) :
        i < j => \E a, b \in 1..Len(DocOrder) :
                    /\ a < b
                    /\ l[i].documentId = DocIdOf(DocOrder[a])
                    /\ l[j].documentId = DocIdOf(DocOrder[b])

Metas ==
    { [messages |-> <<>>, modelPreference |-> Undefined, metisActive |-> FALSE],
      [messages |-> <<Lit("hello", 5)>>, modelPreference |-> Lit("gpt-4o", 6),
       metisActive |-> TRUE] }

MakeContext(conversationId, docs, meta) ==
    [conversationId  |-> conversationId,
     documentContext |-> docs,
     messages        |-> meta.messages,
     modelPreference |-> meta.modelPreference,
     metisActive     |-> meta.metisActive]

\* the contexts a caller may pass to saveContext for conversation c1
WideContexts ==
    { MakeContext(Conv1, l, m) :
        l \in {x \in DocLists(MaxDocs, DocNames, Contents) : InDocOrder(x)}, m \in Metas }

\* a few contexts per conversation, for runs of many calls
NarrowDocLists == DocLists(1, {"d1"}, {EmptyStr, ShortContent, AtMaxContent})

NarrowContexts(conversationId) ==
    { MakeContext(conversationId, l, CHOOSE m \in Metas : m.metisActive) :
        l \in NarrowDocLists }

NoBackend == [present |-> FALSE, limited |-> FALSE, quota |-> 0, mode |-> "ok"]

QuotaBackends ==
    { [present |-> TRUE, limited |-> TRUE, quota |-> q, mode |-> "ok"] :
        q \in {10, 120, 420, MaxDocumentSize + 1000} }

FaultyBackends ==
    { [present |-> TRUE, limited |-> FALSE, quota |-> 0, mode |-> m] :
        m \in {"setThrows", "getThrows", "removeThrows", "removeNoop"} }

GoodBackend == [present |-> TRUE, limited |-> FALSE, quota |-> 0, mode |-> "ok"]

Backends == {NoBackend, GoodBackend} \cup QuotaBackends \cup FaultyBackends

StoreBackends ==
    {NoBackend, GoodBackend} \cup {b \in QuotaBackends : b.quota = 120} \cup FaultyBackends

(***************************************************************************)
(* The storage service driven directly: save, load, remove, and another    *)
(* writer of the shared backend.                                           *)
(***************************************************************************)
NoOp ==
    [name |-> "none", conversationId |-> EmptyStr, context |-> NoCtx, writes |-> <<>>,
     verify |-> "none", ret |-> NoCtx, removed |-> FALSE, threw |-> FALSE,
     tab |-> "", document |-> NoCtx, error |-> "none", toast |-> "none",
     notified |-> FALSE, after |-> "none", initializes |-> FALSE, id |-> EmptyStr,
     fetched |-> TRUE, events |-> <<>>, fileId |-> "", invoked |-> <<>>,
     argument |-> NoCtx]

Tabs == {"A", "B"}

\* a tab before its client is used: nothing initialized, nothing selected, no
\* handleDocumentSelect waiting for its fetch
NoTab(conversationId) ==
    [conversationId |-> conversationId, initialized |-> FALSE, context |-> NoCtx,
     selectedDocuments |-> <<>>, isLoading |-> FALSE, pending |-> <<>>,
     awaiting |-> <<>>]

NoTabs == [t \in Tabs |-> NoTab(Conv1)]

DocIds == {"d1", "d2"}

\* a provider whose documents are short texts
NoProvider == [d \in DocIds |-> ShortContent]

FileIds == {"f1", "f2"}

\* the FileWatcher before any addListener (a fileId without an entry has no listeners)
NoListeners == [f \in FileIds |-> <<>>]

StoreSave(conversationId, context) ==
    LET r == SaveContext(store, conversationId, context)
    IN  /\ store' = r.store
        /\ op' = [NoOp EXCEPT !.name = "save", !.conversationId = conversationId,
                              !.context = context, !.writes = r.writes,
                              !.verify = r.verify, !.argument = r.context]
        /\ UNCHANGED <<backend, variant, clientVars>>

StoreLoad(conversationId) ==
    LET r == LoadContext(store, conversationId)
    IN  /\ op' = [NoOp EXCEPT !.name = "load", !.conversationId = conversationId,
                              !.ret = r.ret, !.threw = r.threw]
        /\ UNCHANGED <<store, backend, variant, clientVars>>

StoreRemove(conversationId) ==
    LET r == RemoveContext(store, conversationId)
    IN  /\ store' = r.store
        /\ op' = [NoOp EXCEPT !.name = "remove", !.conversationId = conversationId,
                              !.removed = r.ret, !.threw = r.threw]
        /\ UNCHANGED <<backend, variant, clientVars>>

\* what another writer of the shared backend may leave under a conversation's key:
\* text that is no context, or a context holding documents without content
ForeignValues(conversationId) ==
    {Garbage}
    \cup { JsonValue(JsonStringify(
              MakeContext(conversationId, <<MakeDoc("d2", c)>>,
                          CHOOSE m \in Metas : m.metisActive))) :
             c \in {EmptyStr, Undefined} }

ForeignWrite(conversationId, value) ==
    /\ backend.present
    /\ store' = Put(store, MainKey(conversationId), value)
    /\ op' = [NoOp EXCEPT !.name = "foreign", !.conversationId = conversationId]
    /\ UNCHANGED <<backend, variant, clientVars>>

InitStore ==
    /\ store = EmptyStore
    /\ backend \in StoreBackends
    /\ variant \in {"truncating", "chunking"}
    /\ op = NoOp
    /\ tabs = NoTabs
    /\ provider = NoProvider
    /\ calls = 0
    /\ listeners = NoListeners

\* the conversations of the storage runs: two plain ids and the id
\* "c1_doc_d1", a string like any other for the services
StoreConvIds == ConvIds \cup {Concat(Concat(Conv1, Lit("_doc_", 5)), DocIdOf("d1"))}

NextStore ==
    \/ \E c \in StoreConvIds : \E x \in NarrowContexts(c) : StoreSave(c, x)
    \/ \E c \in StoreConvIds : StoreLoad(c)
    \/ \E c \in StoreConvIds : StoreRemove(c)
    \/ \E c \in ConvIds : \E v \in ForeignValues(c) : ForeignWrite(c, v)

\* any run of storage-service calls on these conversations
SpecStore == InitStore /\ [][NextStore]_storeVars

(***************************************************************************)
(* saveContext as a function of its argument: one call on a store that is  *)
(* empty or holds an older entry of the conversation, then loadContext.    *)
(***************************************************************************)
OlderContext == MakeContext(Conv1, <<MakeDoc("d3", ShortContent)>>, CHOOSE m \in Metas : ~m.metisActive)

InitSave ==
    /\ backend \in {NoBackend, GoodBackend} \cup QuotaBackends
                   \cup {b \in FaultyBackends : b.mode = "setThrows"}
    /\ variant \in {"truncating", "chunking"}
    /\ \E older \in BOOLEAN :
          store = IF older /\ backend.present
                  THEN Put(EmptyStore, MainKey(Conv1), JsonValue(JsonStringify(OlderContext)))
                  ELSE EmptyStore
    /\ op = NoOp
    /\ tabs = NoTabs
    /\ provider = NoProvider
    /\ calls = 0
    /\ listeners = NoListeners

SaveOnce(context) ==
    /\ op.name = "none"
    /\ StoreSave(context.conversationId, context)

LoadSaved ==
    /\ op.name = "save"
    /\ \E c \in {op.conversationId} :
          LET r == LoadContext(store, c)
          IN  op' = [op EXCEPT !.name = "saveload", !.ret = r.ret, !.threw = r.threw]
    /\ UNCHANGED <<store, backend, variant, clientVars>>

\* the loaded context is saved again and loaded again; context is what was
\* saved again, after tells whether the first save's full write was accepted
ResaveLoaded ==
    /\ op.name = "saveload"
    /\ op.ret # NoCtx
    /\ \E r \in {SaveContext(store, op.conversationId, op.ret)} :
          \E l \in {LoadContext(r.store, op.conversationId)} :
             /\ store' = r.store
             /\ op' = [NoOp EXCEPT !.name = "resaveload",
                                   !.conversationId = op.conversationId,
                                   !.context = op.ret, !.writes = r.writes,
                                   !.verify = r.verify, !.argument = r.context,
                                   !.ret = l.ret, !.threw = l.threw,
                                   !.after = IF op.writes # <<>> /\ op.writes[1].outcome = "ok"
                                             THEN "accepted" ELSE "fallback"]
    /\ UNCHANGED <<backend, variant, clientVars>>

NextSave ==
    \/ \E x \in WideContexts : SaveOnce(x)
    \/ LoadSaved
    \/ ResaveLoaded

SpecSave == InitSave /\ [][NextSave]_storeVars

(***************************************************************************)
(* ContextService (spec section 4.3): the in-memory context of the current *)
(* conversation, persisted through the storage service.                    *)
(***************************************************************************)
EmptyContext(conversationId) ==
    MakeContext(conversationId, <<>>, CHOOSE m \in Metas : ~m.metisActive)

\* the id minted when initializeContext is called without one
MintedId == Lit("n1", 2)

\* if an entry is found for the id it becomes current, otherwise an empty context;
\* without an id, an empty context under a minted one
\* (here and below, x \in {e} names the one result of the call e)
CSInitializeContext(st, conversationId) ==
    IF Falsy(conversationId) THEN EmptyContext(MintedId)
    ELSE CHOOSE context \in
        { IF r.ret # NoCtx THEN r.ret ELSE EmptyContext(conversationId) :
            r \in {LoadContext(st, conversationId)} } : TRUE

\* getConversationId(): the current context's id, or null
CSGetConversationId(context) ==
    IF context = NoCtx THEN Undefined ELSE context.conversationId

HasDocument(context, documentId) ==
    /\ context # NoCtx
    /\ \E i \in 1..Len(context.documentContext) :
          context.documentContext[i].documentId = documentId

\* the context persisted, and what the call leaves in memory
Persisted(st, updated) ==
    CHOOSE res \in
        { [store |-> s.store, context |-> s.context, writes |-> s.writes] :
            s \in {SaveContext(st, updated.conversationId, updated)} } : TRUE

\* an addDocumentToContext that appends without looking for the id
CSAddMutantNoDuplicateCheck(st, context, doc) ==
    IF context = NoCtx
    THEN [store |-> st, context |-> context, error |-> "NotInitialized", writes |-> <<>>]
    ELSE IF Falsy(doc.content)
    THEN [store |-> st, context |-> context, error |-> "EmptyContent", writes |-> <<>>]
    ELSE CHOOSE res \in
            { [store |-> p.store, context |-> p.context, error |-> "none",
               writes |-> p.writes] :
                p \in { Persisted(st, updated) :
                          updated \in {[context EXCEPT !.documentContext = Append(@, doc)]} } }
            : TRUE

\* EmptyContent, duplicate rejection, else append, persist, update the in-memory context
CSAddDocumentToContext(st, context, doc) ==
    IF context = NoCtx
    THEN [store |-> st, context |-> context, error |-> "NotInitialized", writes |-> <<>>]
    ELSE IF Falsy(doc.content)
    THEN [store |-> st, context |-> context, error |-> "EmptyContent", writes |-> <<>>]
    ELSE IF HasDocument(context, doc.documentId)
    THEN [store |-> st, context |-> context, error |-> "Duplicate", writes |-> <<>>]
    ELSE CHOOSE res \in
            { [store |-> p.store, context |-> p.context, error |-> "none",
               writes |-> p.writes] :
                p \in { Persisted(st, updated) :
                          updated \in {[context EXCEPT !.documentContext = Append(@, doc)]} } }
            : TRUE

\* removes by id if present, persists, returns whether anything was removed
CSRemoveDocumentFromContext(st, context, documentId) ==
    IF ~HasDocument(context, documentId)
    THEN [store |-> st, context |-> context, removed |-> FALSE, writes |-> <<>>]
    ELSE CHOOSE res \in
            { [store |-> p.store, context |-> p.context, removed |-> TRUE,
               writes |-> p.writes] :
                p \in { Persisted(st, updated) :
                          updated \in {[context EXCEPT !.documentContext =
                                          SelectSeq(@, LAMBDA d : d.documentId # documentId)]} } }
            : TRUE

\* re-loads the current conversation; replaces the in-memory context if the load succeeds
CSRefreshContextFromStorage(st, context) ==
    IF context = NoCtx THEN [context |-> context, refreshed |-> FALSE]
    ELSE CHOOSE res \in
            { IF r.ret # NoCtx THEN [context |-> r.ret, refreshed |-> TRUE]
              ELSE [context |-> context, refreshed |-> FALSE] :
                r \in {LoadContext(st, context.conversationId)} } : TRUE

\* refreshes from storage first, then returns the in-memory context
CSGetModelContext(st, context) == CSRefreshContextFromStorage(st, context).context

(***************************************************************************)
(* MCPContextClient: the facade a tab holds (c: its initialized flag and   *)
(* its service's context).                                                 *)
(***************************************************************************)
ClientInitializeContext(st, c, conversationId) ==
    [c EXCEPT !.context = CSInitializeContext(st, conversationId), !.initialized = TRUE]

\* the client after initializeContext, with the id it returns
Initialized(st, c, conversationId) ==
    CHOOSE res \in
        { [client |-> i, ret |-> i.context.conversationId, initializes |-> TRUE] :
            i \in {ClientInitializeContext(st, c, conversationId)} } : TRUE

\* an ensureContextInitialized that keeps the current conversation once initialized
ClientEnsureMutantNeverSwitches(st, c, conversationId) ==
    IF ~c.initialized THEN Initialized(st, c, conversationId)
    ELSE [client |-> c, ret |-> CSGetConversationId(c.context), initializes |-> FALSE]

\* conversationId is Undefined when the argument is omitted; initializes: whether
\* initializeContext was called
ClientEnsureContextInitialized(st, c, conversationId) ==
    IF ~c.initialized THEN Initialized(st, c, conversationId)
    ELSE LET currentConversationId == CSGetConversationId(c.context)
         IN  IF ~Falsy(conversationId) /\ currentConversationId # conversationId
             THEN Initialized(st, c, conversationId)
             ELSE IF ~Falsy(currentConversationId)
                  THEN [client |-> c, ret |-> currentConversationId, initializes |-> FALSE]
                  ELSE Initialized(st, c, Undefined)

\* an addDocumentToContext that logs the service's error and returns
ClientAddMutantSwallows(st, c, doc) ==
    IF Falsy(doc.content) \/ StrLen(doc.content) = 0
    THEN [store |-> st, client |-> c, error |-> "EmptyContent", writes |-> <<>>,
          notified |-> FALSE]
    ELSE CHOOSE res \in
            { [store |-> r.store, client |-> [c EXCEPT !.context = r.context],
               error |-> "none", writes |-> r.writes, notified |-> r.error = "none"] :
                r \in {CSAddDocumentToContext(st, c.context, doc)} } : TRUE

\* an addDocumentToContext that dispatches the change event whatever happened
ClientAddMutantAlwaysNotifies(st, c, doc) ==
    IF Falsy(doc.content) \/ StrLen(doc.content) = 0
    THEN [store |-> st, client |-> c, error |-> "EmptyContent", writes |-> <<>>,
          notified |-> TRUE]
    ELSE CHOOSE res \in
            { [store |-> r.store, client |-> [c EXCEPT !.context = r.context],
               error |-> r.error, writes |-> r.writes, notified |-> TRUE] :
                r \in {CSAddDocumentToContext(st, c.context, doc)} } : TRUE

\* the error thrown ("none" if it returned), and whether the change event was dispatched
ClientAddDocumentToContext(st, c, doc) ==
    IF Falsy(doc.content) \/ StrLen(doc.content) = 0
    THEN [store |-> st, client |-> c, error |-> "EmptyContent", writes |-> <<>>,
          notified |-> FALSE]
    ELSE CHOOSE res \in
            { [store |-> r.store, client |-> [c EXCEPT !.context = r.context],
               error |-> r.error, writes |-> r.writes, notified |-> r.error = "none"] :
                r \in {CSAddDocumentToContext(st, c.context, doc)} } : TRUE

\* a removeDocumentFromContext that dispatches the change event whatever was removed
ClientRemoveMutantAlwaysNotifies(st, c, documentId) ==
    CHOOSE res \in
        { [store |-> r.store, client |-> [c EXCEPT !.context = r.context],
           removed |-> r.removed, writes |-> r.writes, notified |-> TRUE] :
            r \in {CSRemoveDocumentFromContext(st, c.context, documentId)} } : TRUE

ClientRemoveDocumentFromContext(st, c, documentId) ==
    CHOOSE res \in
        { [store |-> r.store, client |-> [c EXCEPT !.context = r.context],
           removed |-> r.removed, writes |-> r.writes, notified |-> r.removed] :
            r \in {CSRemoveDocumentFromContext(st, c.context, documentId)} } : TRUE

\* a getModelContext that returns the in-memory context as it is
ClientGetMutantNoRefresh(st, c) ==
    [client |-> c, ret |-> c.context, notified |-> FALSE]

\* refreshContextFromStorage on the service, not the client's refreshContext: no
\* change event is dispatched
ClientGetModelContext(st, c) ==
    CHOOSE res \in
        { [client |-> [c EXCEPT !.context = context], ret |-> context,
           notified |-> FALSE] :
            context \in { CSGetModelContext(st, refreshed) :
                            refreshed \in {CSRefreshContextFromStorage(st, c.context).context} } }
        : TRUE

\* a refreshContext that reports the service's result and keeps the context it had
ClientRefreshMutantKeepsMemory(st, c) ==
    CHOOSE res \in
        { [client |-> c, result |-> r.refreshed, notified |-> r.refreshed] :
            r \in {CSRefreshContextFromStorage(st, c.context)} } : TRUE

\* a refreshContext that dispatches the change event whatever the service returned
ClientRefreshMutantAlwaysNotifies(st, c) ==
    CHOOSE res \in
        { [client |-> [c EXCEPT !.context = r.context], result |-> r.refreshed,
           notified |-> TRUE] :
            r \in {CSRefreshContextFromStorage(st, c.context)} } : TRUE

ClientRefreshContext(st, c) ==
    CHOOSE res \in
        { [client |-> [c EXCEPT !.context = r.context], result |-> r.refreshed,
           notified |-> r.refreshed] :
            r \in {CSRefreshContextFromStorage(st, c.context)} } : TRUE

(***************************************************************************)
(* The tabs of one browser sharing the backend: calls on each tab's        *)
(* client, and the document hook's handlers.                               *)
(***************************************************************************)
ClientOf(tab) == [initialized |-> tab.initialized, context |-> tab.context]

WithClient(tab, c) == [tab EXCEPT !.initialized = c.initialized, !.context = c.context]

\* A documentContextUpdated event as dispatched on the window: its detail, and whether
\* the read-back check of the handler that runs the call had passed when it was dispatched.
\* FileWatcher.notifyDocumentContextChange: the detail holds the time and nothing else
NotifyDocumentContextChange ==
    [detail |-> <<Pair("timestamp", Lit("Date.now()", 13))>>, verified |-> FALSE]

\* the events a call on the client dispatched
Published(notified) == IF notified THEN <<NotifyDocumentContextChange>> ELSE <<>>

\* the event handleDocumentSelect dispatches after its check
DocumentAdded(documentId) ==
    [detail |-> <<Pair("documentId", documentId), Pair("action", Lit("added", 5))>>,
     verified |-> TRUE]

MaxCalls == 4

\* one more call on a tab
Called == calls < MaxCalls /\ calls' = calls + 1 /\ UNCHANGED <<provider, listeners>>

\* a fetchDocument that resolves to a stand-in text when the provider gave nothing
FetchDocumentMutantStandIn(d, fetched) ==
    IF fetched /\ ~Falsy(provider[d]) THEN provider[d] ELSE NoContentPlaceholder

\* what fetchDocument(d) resolves to: the document's text; null when the provider
\* failed (fetched is false) and when fetchDocumentContent threw on an empty text
FetchDocument(d, fetched) ==
    IF fetched /\ ~(Falsy(provider[d]) \/ StrLen(provider[d]) = 0) THEN provider[d]
    ELSE Undefined

Providers ==
    { [d \in DocIds |-> IF d = "d1" THEN c[1] ELSE c[2]] :
        c \in { <<AtMaxContent, OverMaxContent>>, <<ShortContent, EmptyStr>> } }

Selected(tab, d) ==
    \E i \in 1..Len(tab.selectedDocuments) : tab.selectedDocuments[i] = d

Unselect(selectedDocuments, d) == SelectSeq(selectedDocuments, LAMBDA x : x # d)

EnsureContextInitialized(t, conversationId) ==
    /\ Called
    /\ \E e \in {ClientEnsureContextInitialized(store, ClientOf(tabs[t]), conversationId)} :
          /\ tabs' = [tabs EXCEPT ![t] = WithClient(@, e.client)]
          /\ op' = [NoOp EXCEPT !.name = "ensure", !.tab = t,
                                !.conversationId = conversationId,
                                !.initializes = e.initializes, !.id = e.ret]
    /\ UNCHANGED <<store, backend, variant>>

AddDocumentToContext(t, doc) ==
    /\ Called
    /\ \E c \in {ClientOf(tabs[t])} :
       \E r \in {ClientAddDocumentToContext(store, c, doc)} :
          /\ store' = r.store
          /\ tabs' = [tabs EXCEPT ![t] = WithClient(@, r.client)]
          /\ op' = [NoOp EXCEPT !.name = "add", !.tab = t, !.document = doc,
                                !.context = IF r.error = "none" THEN r.client.context
                                            ELSE NoCtx,
                                !.error = r.error, !.threw = r.error # "none",
                                !.writes = r.writes, !.notified = r.notified,
                                !.events = Published(r.notified)]
    /\ UNCHANGED <<backend, variant>>

\* after: whether the call before this one was this tab's removeDocumentFromContext of
\* the same document, and what it returned
RemoveDocumentFromContext(t, d) ==
    /\ Called
    /\ \E c \in {ClientOf(tabs[t])} :
       \E r \in {ClientRemoveDocumentFromContext(store, c, DocIdOf(d))} :
       \E follows \in {op.name = "removeDocument" /\ op.tab = t
                          /\ op.document = MakeDoc(d, Undefined)} :
          /\ store' = r.store
          /\ tabs' = [tabs EXCEPT ![t] = WithClient(@, r.client)]
          /\ op' = [NoOp EXCEPT !.name = "removeDocument", !.tab = t,
                                !.document = MakeDoc(d, Undefined),
                                !.after = IF ~follows THEN "none"
                                          ELSE IF op.removed THEN "removed"
                                          ELSE "notRemoved",
                                !.removed = r.removed, !.writes = r.writes,
                                !.notified = r.notified,
                                !.events = Published(r.notified)]
    /\ UNCHANGED <<backend, variant>>

\* after = "add": the call before this one was this tab's add of op.document, and it
\* returned; op.context is this tab's context when the call began
GetModelContext(t) ==
    /\ Called
    /\ \E c \in {ClientOf(tabs[t])} :
       \E r \in {ClientGetModelContext(store, c)} :
       \E follows \in {op.name = "add" /\ op.tab = t /\ ~op.threw} :
          /\ tabs' = [tabs EXCEPT ![t] = WithClient(@, r.client)]
          /\ op' = [NoOp EXCEPT !.name = "get", !.tab = t, !.ret = r.ret,
                                !.context = c.context, !.notified = r.notified,
                                !.after = IF follows THEN "add" ELSE "none",
                                !.document = IF follows THEN op.document ELSE NoCtx,
                                !.writes = IF follows THEN op.writes ELSE <<>>]
    /\ UNCHANGED <<store, backend, variant>>

\* after = "add": the call before this one was another tab's add of op.document, and it
\* returned; op.context is this tab's context when the call began, op.removed the result
RefreshContext(t) ==
    /\ Called
    /\ \E c \in {ClientOf(tabs[t])} :
       \E r \in {ClientRefreshContext(store, c)} :
       \E follows \in {op.name \in {"add", "select"} /\ op.tab # t /\ op.notified} :
          /\ tabs' = [tabs EXCEPT ![t] = WithClient(@, r.client)]
          /\ op' = [NoOp EXCEPT !.name = "refresh", !.tab = t, !.removed = r.result,
                                !.context = c.context,
                                !.after = IF follows THEN "add" ELSE "none",
                                !.document = IF follows THEN op.document ELSE NoCtx,
                                !.writes = IF follows THEN op.writes ELSE <<>>,
                                !.notified = r.notified,
                                !.events = Published(r.notified)]
    /\ UNCHANGED <<store, backend, variant>>

MaxPending == 2

\* handleDocumentSelect up to the await of fetchDocument, for a tab that has a client
\* and a conversation; the call waits in pending with the conversation it was made for
HandleDocumentSelect(t, d) ==
    /\ Called
    /\ Len(tabs[t].pending) < MaxPending
    /\ IF Selected(tabs[t], d)
       THEN /\ op' = [NoOp EXCEPT !.name = "select", !.tab = t, !.toast = "error",
                                  !.error = "AlreadyInContext"]
            /\ UNCHANGED tabs
       ELSE /\ \E e \in {ClientEnsureContextInitialized(store, ClientOf(tabs[t]),
                                                       tabs[t].conversationId)} :
                  tabs' = [tabs EXCEPT ![t] =
                             [WithClient(@, e.client)
                                EXCEPT !.isLoading = TRUE,
                                       !.pending = Append(@,
                                           [document |-> d,
                                            conversationId |-> tabs[t].conversationId])]]
            /\ op' = [NoOp EXCEPT !.name = "selecting", !.tab = t]
    /\ UNCHANGED <<store, backend, variant>>

\* the entry of documentContext with the id, as find() returns it (NoCtx: undefined)
FindDocument(context, documentId) ==
    IF HasDocument(context, documentId)
    THEN context.documentContext[CHOOSE i \in 1..Len(context.documentContext) :
            /\ context.documentContext[i].documentId = documentId
            /\ \A j \in 1..(i - 1) : context.documentContext[j].documentId # documentId]
    ELSE NoCtx

\* a check that only looks at the content of a document it finds
VerifyAddedMutantContentOnly(context, documentId) ==
    LET docInContext == FindDocument(context, documentId)
    IN  IF docInContext = NoCtx THEN "none"
        ELSE IF docInContext.content = Undefined THEN "TypeError"
        ELSE IF StrLen(docInContext.content) = 0 THEN "AddVerificationFailed"
        ELSE "none"

\* the check of handleDocumentSelect on the context read back: "none", or the error thrown
VerifyAdded(context, documentId) ==
    LET docInContext == FindDocument(context, documentId)
    IN  IF docInContext = NoCtx THEN "AddVerificationFailed"
        ELSE IF docInContext.content = Undefined THEN "TypeError"
        ELSE IF StrLen(docInContext.content) = 0 THEN "AddVerificationFailed"
        ELSE "none"

Without(q, i) == SubSeq(q, 1, i - 1) \o SubSeq(q, i + 1, Len(q))

\* handleDocumentSelect from the point where the fetchDocument of the i-th waiting call
\* resolved; op.id is the conversation of the client's context when the add ran,
\* op.context the context the add handed to saveContext; after = "add": the call before
\* this one was another tab's add, which returned while this call was waiting
DocumentFetched(t, i, fetched) ==
    /\ Called
    /\ i \in 1..Len(tabs[t].pending)
    /\ \E tab \in {tabs[t]} :
       \E p \in {tab.pending[i]} :
       \E content \in {FetchDocument(p.document, fetched)} :
       \E doc \in {MakeDoc(p.document, content)} :
          IF Falsy(content)
          THEN /\ tabs' = [tabs EXCEPT ![t] =
                             [@ EXCEPT !.selectedDocuments = Unselect(@, p.document),
                                       !.isLoading = FALSE,
                                       !.pending = Without(@, i)]]
               /\ op' = [NoOp EXCEPT !.name = "select", !.tab = t, !.document = doc,
                                     !.conversationId = p.conversationId,
                                     !.fetched = fetched,
                                     !.toast = "error", !.error = "FetchFailed",
                                     !.threw = TRUE]
               /\ UNCHANGED store
          ELSE \E a \in {ClientAddDocumentToContext(store, ClientOf(tab), doc)} :
               \E g \in {IF a.error = "none" THEN ClientGetModelContext(a.store, a.client)
                         ELSE [client |-> a.client, ret |-> NoCtx, notified |-> FALSE]} :
               \E error \in {IF a.error # "none" THEN a.error
                             ELSE VerifyAdded(g.ret, doc.documentId)} :
               \E follows \in {op.name \in {"add", "select"} /\ op.tab # t
                                  /\ op.notified} :
                  /\ store' = a.store
                  /\ tabs' = [tabs EXCEPT ![t] =
                                [WithClient(@, g.client)
                                   EXCEPT !.selectedDocuments =
                                             IF error = "none"
                                             THEN Append(@, p.document)
                                             ELSE Unselect(@, p.document),
                                          !.isLoading = FALSE,
                                          !.pending = Without(@, i)]]
                  /\ op' = [NoOp EXCEPT !.name = "select", !.tab = t, !.document = doc,
                                        !.conversationId = p.conversationId,
                                        !.id = CSGetConversationId(a.client.context),
                                        !.context = IF a.error = "none"
                                                    THEN a.client.context ELSE NoCtx,
                                        !.after = IF follows THEN "add" ELSE "none",
                                        !.fetched = fetched,
                                        !.toast = IF error = "none" THEN "success"
                                                  ELSE "error",
                                        !.error = error, !.threw = error # "none",
                                        !.writes = a.writes, !.ret = g.ret,
                                        !.notified = a.notified,
                                        !.events = Published(a.notified)
                                           \o (IF error = "none"
                                               THEN <<DocumentAdded(doc.documentId)>>
                                               ELSE <<>>)]
    /\ UNCHANGED <<backend, variant>>

\* a check that takes the removal for granted
StillInContextMutantUnchecked(context, documentId) ==
    FALSE

\* the check of handleRemoveDocument on the context read back
StillInContext(context, documentId) ==
    /\ context # NoCtx
    /\ \E k \in 1..Len(context.documentContext) :
          context.documentContext[k].documentId = documentId

HandleRemoveDocument(t, d) ==
    /\ Called
    /\ Selected(tabs[t], d)
    /\ \E e \in {ClientEnsureContextInitialized(store, ClientOf(tabs[t]),
                                                tabs[t].conversationId)} :
       \E r \in {ClientRemoveDocumentFromContext(store, e.client, DocIdOf(d))} :
       \E g \in {ClientGetModelContext(r.store, r.client)} :
       \E stillInContext \in {StillInContext(g.ret, DocIdOf(d))} :
          /\ store' = r.store
          /\ tabs' = [tabs EXCEPT ![t] =
                        [WithClient(@, g.client)
                           EXCEPT !.selectedDocuments =
                                     IF stillInContext THEN @ ELSE Unselect(@, d)]]
          /\ op' = [NoOp EXCEPT !.name = "removeSelected", !.tab = t,
                                !.document = MakeDoc(d, Undefined),
                                !.conversationId = tabs[t].conversationId,
                                !.id = CSGetConversationId(e.client.context),
                                !.removed = r.removed, !.writes = r.writes,
                                !.ret = g.ret,
                                !.toast = IF stillInContext THEN "error" ELSE "success",
                                !.notified = r.notified,
                                !.events = Published(r.notified)]
    /\ UNCHANGED <<backend, variant>>

\* the document a documentId belongs to
DocOfId(documentId) == CHOOSE d \in DocNames : DocIdOf(d) = documentId

\* loadDocumentContext of the hook mounted for conversationId: initializeContext,
\* refreshContext, getModelContext, then the list shown is the context's documents
LoadDocumentContext(t, conversationId) ==
    /\ Called
    /\ \E i \in {ClientInitializeContext(store, ClientOf(tabs[t]), conversationId)} :
       \E r \in {ClientRefreshContext(store, i)} :
       \E g \in {ClientGetModelContext(store, r.client)} :
          /\ tabs' = [tabs EXCEPT ![t] =
                        [WithClient(@, g.client)
                           EXCEPT !.conversationId = conversationId,
                                  !.selectedDocuments =
                                     IF g.ret = NoCtx THEN <<>>
                                     ELSE [k \in 1..Len(g.ret.documentContext) |->
                                             DocOfId(g.ret.documentContext[k].documentId)]]]
          /\ op' = [NoOp EXCEPT !.name = "loadDocuments", !.tab = t,
                                !.conversationId = conversationId, !.ret = g.ret,
                                !.notified = r.notified,
                                !.events = Published(r.notified)]
    /\ UNCHANGED <<store, backend, variant>>

SpecBackends == {GoodBackend} \cup {b \in QuotaBackends : b.quota \in {10, 120}}

Init ==
    /\ backend \in SpecBackends
    /\ variant \in {"truncating", "chunking"}
    /\ \E older \in BOOLEAN :
          store = IF older
                  THEN Put(EmptyStore, MainKey(Conv1), JsonValue(JsonStringify(OlderContext)))
                  ELSE EmptyStore
    /\ op = NoOp
    /\ tabs = NoTabs
    /\ provider \in Providers
    /\ calls = 0
    /\ listeners = NoListeners

Next ==
    \/ \E t \in Tabs : EnsureContextInitialized(t, tabs[t].conversationId)
    \/ \E t \in Tabs : \E doc \in {MakeDoc(d, provider[d]) : d \in DocIds} :
          AddDocumentToContext(t, doc)
    \/ \E t \in Tabs : \E d \in DocIds : RemoveDocumentFromContext(t, d)
    \/ \E t \in Tabs : GetModelContext(t)
    \/ \E t \in Tabs : RefreshContext(t)
    \/ \E t \in Tabs : \E d \in DocIds : HandleDocumentSelect(t, d)
    \/ \E t \in Tabs : \E i \in 1..MaxPending : \E fetched \in BOOLEAN :
          DocumentFetched(t, i, fetched)
    \/ \E t \in Tabs : \E d \in DocIds : HandleRemoveDocument(t, d)

\* two tabs on one conversation, sharing the backend
Spec == Init /\ [][Next]_storeVars

\* what a caller may pass as content: nothing, the empty string, or a text
AnyContents == {Undefined, EmptyStr, ShortContent}

NextClient ==
    \/ \E c \in ConvIds : LoadDocumentContext("A", c)
    \/ \E c \in ConvIds \cup {Undefined} : EnsureContextInitialized("A", c)
    \/ \E d \in DocIds : \E content \in AnyContents :
          AddDocumentToContext("A", MakeDoc(d, content))
    \/ \E d \in DocIds : RemoveDocumentFromContext("A", d)
    \/ \E d \in DocIds : HandleDocumentSelect("A", d)
    \/ \E i \in 1..MaxPending : \E fetched \in BOOLEAN : DocumentFetched("A", i, fetched)
    \/ \E d \in DocNames : HandleRemoveDocument("A", d)

\* one tab whose client is used for two conversations
SpecClient == Init /\ [][NextClient]_storeVars

\* handleContextUpdate: the document-loading observer of tab t receives the
\* documentContextUpdated event the last call dispatched and runs
\* loadDocumentContext for the tab's conversation; refreshContext inside it
\* dispatches the event again when it returns true; after: the reload's number
\* in the chain (the "refresh #" of its log line), kept as its parity
ReloadOnUpdate(t) ==
    /\ op.tab = t
    /\ op.events # <<>>
    /\ \E i \in {ClientInitializeContext(store, ClientOf(tabs[t]), tabs[t].conversationId)} :
       \E r \in {ClientRefreshContext(store, i)} :
       \E g \in {ClientGetModelContext(store, r.client)} :
          /\ tabs' = [tabs EXCEPT ![t] =
                        [WithClient(@, g.client)
                           EXCEPT !.selectedDocuments =
                                     IF g.ret = NoCtx THEN <<>>
                                     ELSE [k \in 1..Len(g.ret.documentContext) |->
                                             DocOfId(g.ret.documentContext[k].documentId)]]]
          /\ op' = [NoOp EXCEPT !.name = "reload", !.tab = t,
                                !.conversationId = tabs[t].conversationId, !.ret = g.ret,
                                !.notified = r.notified,
                                !.events = Published(r.notified),
                                !.after = IF op.name = "reload" /\ op.after = "odd"
                                          THEN "even" ELSE "odd"]
    /\ UNCHANGED <<store, backend, variant, provider, calls, listeners>>

NextObserver ==
    \/ EnsureContextInitialized("A", tabs["A"].conversationId)
    \/ \E doc \in {MakeDoc(d, provider[d]) : d \in DocIds} : AddDocumentToContext("A", doc)
    \/ \E d \in DocIds : RemoveDocumentFromContext("A", d)
    \/ ReloadOnUpdate("A")

\* a tab with the observer subscribed; the browser delivers every dispatched
\* event, so the observer's reload is not postponed forever
SpecObserver == Init /\ [][NextObserver]_storeVars /\ WF_storeVars(ReloadOnUpdate("A"))

(***************************************************************************)
(* Calls that await the client's initializeContext. The service's          *)
(* initializeContext has taken effect when the call is suspended; the      *)
(* client's initialized flag is set, and the caller goes on, when the      *)
(* promise resolves (awaiting: the suspended callers of a tab, in order).  *)
(***************************************************************************)
\* ensureContextInitialized up to its await, or to its return when it does not
\* initialize; after: whether another call was awaiting initializeContext
EnsureStarted(t, conversationId) ==
    /\ Called
    /\ \E e \in {ClientEnsureContextInitialized(store, ClientOf(tabs[t]), conversationId)} :
          /\ tabs' = [tabs EXCEPT ![t] =
                        IF e.initializes
                        THEN [@ EXCEPT !.context = e.client.context,
                                       !.awaiting = Append(@, [caller |-> "ensure",
                                                               conversationId |-> conversationId,
                                                               id |-> e.ret])]
                        ELSE @]
          /\ op' = [NoOp EXCEPT !.name = "ensureStarted", !.tab = t,
                                !.conversationId = conversationId,
                                !.initializes = e.initializes, !.id = e.ret,
                                !.after = IF tabs[t].awaiting # <<>> THEN "awaiting"
                                          ELSE "none"]
    /\ UNCHANGED <<store, backend, variant>>

\* sendMessage up to its await of initializeContext(conversationId)
SendMessage(t, conversationId) ==
    /\ Called
    /\ \E i \in {ClientInitializeContext(store, ClientOf(tabs[t]), conversationId)} :
          /\ tabs' = [tabs EXCEPT ![t] =
                        [@ EXCEPT !.context = i.context,
                                  !.awaiting = Append(@, [caller |-> "sendMessage",
                                                          conversationId |-> conversationId,
                                                          id |-> i.context.conversationId])]]
          /\ op' = [NoOp EXCEPT !.name = "sendStarted", !.tab = t,
                                !.conversationId = conversationId]
    /\ UNCHANGED <<store, backend, variant>>

\* the oldest awaited initializeContext resolves: the client is initialized and
\* the caller goes on; ensureContextInitialized returns the id, sendMessage
\* refreshes, reads the context (op.ret) and sends its documents
InitializeResolved(t) ==
    /\ tabs[t].awaiting # <<>>
    /\ \E h \in {Head(tabs[t].awaiting)} :
       \E c \in {[ClientOf(tabs[t]) EXCEPT !.initialized = TRUE]} :
          IF h.caller = "ensure"
          THEN /\ tabs' = [tabs EXCEPT ![t] =
                             [WithClient(@, c) EXCEPT !.awaiting = Tail(@)]]
               /\ op' = [NoOp EXCEPT !.name = "ensured", !.tab = t,
                                     !.conversationId = h.conversationId,
                                     !.initializes = TRUE, !.id = h.id]
          ELSE \E r \in {ClientRefreshContext(store, c)} :
               \E g \in {ClientGetModelContext(store, r.client)} :
                  /\ tabs' = [tabs EXCEPT ![t] =
                                [WithClient(@, g.client) EXCEPT !.awaiting = Tail(@)]]
                  /\ op' = [NoOp EXCEPT !.name = "sendMessage", !.tab = t,
                                        !.conversationId = h.conversationId,
                                        !.id = h.id, !.ret = g.ret,
                                        !.notified = r.notified,
                                        !.events = Published(r.notified)]
    /\ UNCHANGED <<store, backend, variant, provider, calls, listeners>>

NextSession ==
    \/ \E c \in ConvIds : EnsureStarted("A", c)
    \/ \E c \in ConvIds : SendMessage("A", c)
    \/ InitializeResolved("A")
    \/ AddDocumentToContext("A", MakeDoc("d1", ShortContent))
    \/ GetModelContext("A")
    \/ \E c \in ConvIds : StoreRemove(c)

\* one tab whose calls overlap, and removals of entries by another tab
SpecSession == Init /\ [][NextSession]_storeVars

InitNoStorage ==
    /\ store = EmptyStore
    /\ backend = NoBackend
    /\ variant \in {"truncating", "chunking"}
    /\ op = NoOp
    /\ tabs = NoTabs
    /\ provider = NoProvider
    /\ calls = 0
    /\ listeners = NoListeners

NextNoStorage ==
    \/ \E x \in NarrowContexts(Conv1) : StoreSave(Conv1, x)
    \/ StoreLoad(Conv1)
    \/ StoreRemove(Conv1)
    \/ EnsureContextInitialized("A", tabs["A"].conversationId)
    \/ \E d \in DocIds : \E content \in AnyContents :
          AddDocumentToContext("A", MakeDoc(d, content))
    \/ \E d \in DocIds : RemoveDocumentFromContext("A", d)
    \/ GetModelContext("A")

\* a tab in an environment without localStorage: the service's calls, and the client's
SpecNoStorage == InitNoStorage /\ [][NextNoStorage]_storeVars

(***************************************************************************)
(* FileWatcher: listeners per fileId, called one after the other.          *)
(***************************************************************************)
Listeners == {"l1", "l2", "l3"}

\* the listeners whose call throws
Throwing == {"l2"}

IsListener(ls, listener) == \E i \in 1..Len(ls) : ls[i] = listener

\* Set.add: a listener the set holds already stays where it is
AddListener(fileId, listener) ==
    /\ listeners' = [listeners EXCEPT ![fileId] =
                        IF IsListener(@, listener) THEN @ ELSE Append(@, listener)]
    /\ op' = [NoOp EXCEPT !.name = "addListener", !.fileId = fileId]
    /\ UNCHANGED <<store, backend, variant, tabs, provider, calls>>

RemoveListener(fileId, listener) ==
    /\ listeners' = [listeners EXCEPT ![fileId] = SelectSeq(@, LAMBDA l : l # listener)]
    /\ op' = [NoOp EXCEPT !.name = "removeListener", !.fileId = fileId]
    /\ UNCHANGED <<store, backend, variant, tabs, provider, calls>>

\* forEach(listener => listener()) from listener i on: the listeners called, and whether
\* one of them threw, which ends the loop
RECURSIVE ForEachListener(_, _)
ForEachListener(ls, i) ==
    IF i > Len(ls) THEN [invoked |-> <<>>, threw |-> FALSE]
    ELSE IF ls[i] \in Throwing THEN [invoked |-> <<ls[i]>>, threw |-> TRUE]
    ELSE CHOOSE res \in
            { [invoked |-> <<ls[i]>> \o rest.invoked, threw |-> rest.threw] :
                rest \in {ForEachListener(ls, i + 1)} } : TRUE

NotifyChange(fileId) ==
    /\ \E r \in {ForEachListener(listeners[fileId], 1)} :
          op' = [NoOp EXCEPT !.name = "notifyChange", !.fileId = fileId,
                             !.invoked = r.invoked, !.threw = r.threw]
    /\ UNCHANGED <<store, backend, variant, clientVars>>

NextWatcher ==
    \/ \E f \in FileIds : \E l \in Listeners : AddListener(f, l)
    \/ \E f \in FileIds : \E l \in Listeners : RemoveListener(f, l)
    \/ \E f \in FileIds : NotifyChange(f)

\* any run of calls on the FileWatcher
SpecWatcher == InitStore /\ [][NextWatcher]_storeVars

(***************************************************************************)
(* Properties of the truncating saveContext (checked under SpecSave).      *)
(***************************************************************************)
SavedT == variant = "truncating" /\ op.name \in {"save", "saveload"}

\* the backend accepted the full write
FullAccepted ==
    op.writes # <<>> /\ op.writes[1].stage = "full" /\ op.writes[1].outcome = "ok"

\* the context stored under the key of the conversation saved last
StoredT == JsonParse(store[KeyT(op.conversationId)].json)

HasStoredT ==
    /\ KeyT(op.conversationId) \in DOMAIN store
    /\ store[KeyT(op.conversationId)].kind = "json"

InDocs == op.context.documentContext

IsString(c) == c # Undefined

(* C2 as stated: when the backend accepts the full write, saveContext(id, ctx)
   followed by loadContext(id) yields as many documents as ctx has and, for
   every document whose content length is at most maxDocumentSize, the very
   content of ctx. *)
C2_RoundTripAsStated ==
    (variant = "truncating" /\ op.name = "saveload" /\ FullAccepted) =>
        /\ op.ret # NoCtx
        /\ Len(op.ret.documentContext) = Len(InDocs)
        /\ \A i \in 1..Len(InDocs) :
              (IsString(InDocs[i].content) /\ StrLen(InDocs[i].content) <= MaxDocumentSize)
                 => op.ret.documentContext[i].content = InDocs[i].content

(* C2 amended: the same, for every document whose content is non-empty and
   at most maxDocumentSize long (empty content comes back as the
   "[No content available]" placeholder). *)
C2_RoundTrip ==
    (variant = "truncating" /\ op.name = "saveload" /\ FullAccepted) =>
        /\ op.ret # NoCtx
        /\ Len(op.ret.documentContext) = Len(InDocs)
        /\ \A i \in 1..Len(InDocs) :
              (~Falsy(InDocs[i].content) /\ StrLen(InDocs[i].content) <= MaxDocumentSize)
                 => op.ret.documentContext[i].content = InDocs[i].content

C2_Witness ==
    /\ variant = "truncating" /\ op.name = "saveload" /\ FullAccepted
    /\ Len(InDocs) = 2
    /\ \E i, j \in 1..2 : /\ InDocs[i].content = AtMaxContent
                          /\ InDocs[j].content = EmptyStr
    /\ op.ret # NoCtx

(* C3: a document whose content length equals maxDocumentSize is stored
   unmodified; one whose content is longer is stored as its first
   maxDocumentSize characters followed by the truncation marker. *)
C3_TruncationBoundary ==
    (SavedT /\ FullAccepted) =>
        /\ HasStoredT
        /\ Len(StoredT.documentContext) = Len(InDocs)
        /\ \A i \in 1..Len(InDocs) :
              LET c == InDocs[i].content
                  s == StoredT.documentContext[i].content
              IN  /\ (IsString(c) /\ StrLen(c) = MaxDocumentSize) => s = c
                  /\ (IsString(c) /\ StrLen(c) > MaxDocumentSize) =>
                        /\ s = Substring0(c, MaxDocumentSize) \o TruncationMarker
                        /\ StrLen(s) = MaxDocumentSize + 44

C3_Witness ==
    /\ SavedT /\ FullAccepted /\ op.name = "save"
    /\ \E i, j \in 1..Len(InDocs) :
          /\ StrLen(InDocs[i].content) = MaxDocumentSize
          /\ StrLen(InDocs[j].content) = MaxDocumentSize + 1
          /\ StoredT.documentContext[j].content # InDocs[j].content

Oversized == {i \in 1..Len(InDocs) : StrLen(InDocs[i].content) > MaxDocumentSize}

SameButContent(d, e) ==
    /\ d.documentId = e.documentId
    /\ d.documentName = e.documentName
    /\ d.documentType = e.documentType

FrameKept ==
    /\ StoredT.conversationId = op.context.conversationId
    /\ StoredT.messages = op.context.messages
    /\ StoredT.modelPreference = op.context.modelPreference
    /\ StoredT.metisActive = op.context.metisActive
    /\ Len(StoredT.documentContext) = Len(InDocs)
    /\ \A i \in 1..Len(InDocs) : SameButContent(StoredT.documentContext[i], InDocs[i])

(* C4 as stated: with one document over the ceiling and the write accepted,
   every other document is stored with its content unchanged, and
   conversationId, messages, modelPreference and metisActive are stored
   unchanged; only the oversized document's content differs. *)
C4_FrameAsStated ==
    (SavedT /\ FullAccepted /\ Cardinality(Oversized) = 1) =>
        /\ HasStoredT
        /\ FrameKept
        /\ \A i \in 1..Len(InDocs) :
              i \notin Oversized => StoredT.documentContext[i].content = InDocs[i].content

(* C4 amended: the same for every other document with non-empty content; a
   document with empty or missing content is stored with the
   "[No content available]" placeholder as its content. *)
C4_Frame ==
    (SavedT /\ FullAccepted /\ Cardinality(Oversized) = 1) =>
        /\ HasStoredT
        /\ FrameKept
        /\ \A i \in 1..Len(InDocs) :
              i \notin Oversized =>
                 StoredT.documentContext[i].content =
                    IF Falsy(InDocs[i].content) THEN NoContentPlaceholder
                    ELSE InDocs[i].content

C4_Witness ==
    /\ SavedT /\ FullAccepted /\ Cardinality(Oversized) = 1 /\ op.name = "save"
    /\ Len(InDocs) = 2
    /\ \E i \in 1..2 : i \notin Oversized /\ InDocs[i].content = ShortContent
    /\ op.context.messages # <<>>
    /\ \E i \in Oversized : StoredT.documentContext[i].content # InDocs[i].content

PayloadSize(context) == JsonSize(JsonStringify(context))

PlaceholderStored ==
    /\ HasStoredT
    /\ Len(StoredT.documentContext) = Len(InDocs)
    /\ \A i \in 1..Len(InDocs) :
          /\ SameButContent(StoredT.documentContext[i], InDocs[i])
          /\ StoredT.documentContext[i].content
                = Lit("[Content removed due to storage limitations. Document: ", 55)
                  \o InDocs[i].documentName \o Lit("]", 1)

(* C5 as stated: with a backend that rejects any value larger than N, saving a
   context whose serialized form exceeds N but whose placeholder-substituted
   form does not ends with an entry that has the same documents, each with its
   id, name and type and with the placeholder as its content. *)
C5_LadderAsStated ==
    (SavedT /\ backend.limited /\ backend.mode = "ok"
        /\ PayloadSize(op.context) > backend.quota
        /\ PayloadSize(MinimalContextT(op.context)) <= backend.quota)
    => PlaceholderStored

(* C5 amended: the same when the payload of the full write (the serialized
   form of what prepareContextForStorage returns: oversized documents
   truncated, missing content filled in) exceeds N. *)
C5_Ladder ==
    (SavedT /\ backend.limited /\ backend.mode = "ok"
        /\ PayloadSize(PrepareContextForStorage(op.context)) > backend.quota
        /\ PayloadSize(MinimalContextT(op.context)) <= backend.quota)
    => PlaceholderStored

C5_Witness ==
    /\ SavedT /\ op.name = "save" /\ backend.limited /\ backend.quota = 420
    /\ Len(InDocs) = 2
    /\ Len(op.writes) = 2
    /\ op.writes[1].outcome = "quota" /\ op.writes[2].outcome = "ok"
    /\ PlaceholderStored

(* C6: within one saveContext call the placeholder write is issued only after
   the full write was rejected for capacity, the document-less write only
   after the placeholder write failed, and no write follows one that
   succeeded; every write goes to the conversation's key. *)
C6_WriteOrder ==
    SavedT =>
        \A i \in 1..Len(op.writes) :
            /\ op.writes[i].key = KeyT(op.conversationId)
            /\ (i = 1) = (op.writes[i].stage = "full")
            /\ op.writes[i].stage = "placeholder" =>
                  /\ i = 2
                  /\ op.writes[1].outcome = "quota"
            /\ op.writes[i].stage = "bare" =>
                  /\ i = 3
                  /\ op.writes[2].stage = "placeholder"
                  /\ op.writes[2].outcome # "ok"
            /\ i < Len(op.writes) => op.writes[i].outcome # "ok"

C6_Witness ==
    /\ SavedT /\ op.name = "save"
    /\ Len(op.writes) = 3
    /\ op.writes[3].stage = "bare" /\ op.writes[3].outcome = "ok"

(* C7: for every context with at least one document the payloads of the write
   attempts of one saveContext call are strictly decreasing in size. *)
C7_PayloadsDecrease ==
    (SavedT /\ Len(InDocs) >= 1) =>
        \A i \in 1..Len(op.writes) :
            i < Len(op.writes) => op.writes[i + 1].size < op.writes[i].size

LoadedT == variant = "truncating" /\ op.name = "load"

(* C9: loadContext never throws; it returns null when no entry exists under
   the conversation's key, when the stored value cannot be deserialized and
   when the backend is absent; otherwise it returns the deserialized context,
   every stored document present, also those with empty or missing content. *)
C9_LoadNeverThrows ==
    LoadedT =>
        LET k == KeyT(op.conversationId)
        IN  /\ ~op.threw
            /\ (~backend.present \/ k \notin DOMAIN store \/ ParseThrows(store[k]))
                  => op.ret = NoCtx
            /\ (backend.present /\ backend.mode # "getThrows"
                  /\ k \in DOMAIN store /\ ~ParseThrows(store[k]))
                  => /\ op.ret # NoCtx
                     /\ JsonStringify(op.ret) = store[k].json
                     /\ Len(op.ret.documentContext) = Len(store[k].json.documentContext)
                     /\ \A i \in 1..Len(op.ret.documentContext) :
                           op.ret.documentContext[i].documentId
                              = PairValue(store[k].json.documentContext[i], "documentId")

C9_Witness ==
    /\ LoadedT
    /\ op.ret # NoCtx
    /\ \E i \in 1..Len(op.ret.documentContext) : Falsy(op.ret.documentContext[i].content)

(* C10: removeContext returns true only if the conversation's main key is
   absent after the delete; with a backend whose remove has no effect, an
   absent backend or a throwing one it returns false; in both services. *)
C10_RemoveConfirmed ==
    op.name = "remove" =>
        /\ ~op.threw
        /\ op.removed => MainKey(op.conversationId) \notin DOMAIN store
        /\ (~backend.present \/ backend.mode \in {"removeThrows", "getThrows"})
              => ~op.removed

AddedThenRead == op.name = "get" /\ op.after = "add"

ExactlyOnceWithContent(context, doc) ==
    /\ context # NoCtx
    /\ Cardinality({i \in 1..Len(context.documentContext) :
                      context.documentContext[i].documentId = doc.documentId}) = 1
    /\ \A i \in 1..Len(context.documentContext) :
          context.documentContext[i].documentId = doc.documentId
             => context.documentContext[i].content = doc.content

(* C1 as stated: for every document D with non-empty content, of any length
   and with any storage capacity, right after addDocumentToContext returned
   without error on an initialized client, getModelContext() returns a
   context with exactly one entry whose documentId is D.id, and its content
   is D.content. *)
C1_AddThenGetAsStated ==
    AddedThenRead => ExactlyOnceWithContent(op.ret, op.document)

(* C1 amended: the same for a document whose content is at most
   maxDocumentSize long, when the backend accepted every write of the add. *)
C1_AddThenGet ==
    (AddedThenRead
        /\ StrLen(op.document.content) <= MaxDocumentSize
        /\ op.writes # <<>>
        /\ \A i \in 1..Len(op.writes) : op.writes[i].outcome = "ok")
    => ExactlyOnceWithContent(op.ret, op.document)

C1_Witness ==
    /\ AddedThenRead
    /\ variant = "truncating"
    /\ op.document.content = AtMaxContent
    /\ op.writes # <<>> /\ op.writes[1].outcome = "ok"
    /\ Len(op.ret.documentContext) = 2

(* C8: an end-to-end add whose every write attempt failed does not complete
   with the success outcome, whether or not an older entry exists under the
   conversation's key. *)
C8_NoFalseSuccess ==
    (op.name = "select" /\ op.writes # <<>>
        /\ \A i \in 1..Len(op.writes) : op.writes[i].outcome # "ok")
    => op.toast # "success"

\* the secondary keys the __DOC_REF__ markers of a conversation's main entry name
ReferencedKeysC(st, conversationId) ==
    LET k == KeyC(conversationId)
    IN  IF k \in DOMAIN st /\ ~ParseThrows(st[k])
        THEN LET docs == JsonParse(st[k].json).documentContext
             IN  { DropPrefix(docs[i].content, DocRefMarker) :
                     i \in {j \in 1..Len(docs) : IsDocRef(docs[j].content)} }
        ELSE {}

(* C11: in the chunking service, once removeContext(conversationId) has
   returned true, the main entry is absent and so is every secondary key that
   a __DOC_REF__ marker of the main entry named when the removal began. *)
C11_RemoveCascades ==
    [][ (op'.name = "remove" /\ variant = "chunking" /\ op'.removed)
          => /\ KeyC(op'.conversationId) \notin DOMAIN store'
             /\ \A k \in ReferencedKeysC(store, op'.conversationId) :
                   k \notin DOMAIN store' ]_storeVars

(***************************************************************************)
(* Properties of the client and of the document handlers.                  *)
(***************************************************************************)
(* C12: ensureContextInitialized(c) calls initializeContext exactly when the
   client is not initialized, or c is given and differs from the current
   conversation id, or there is no current id; on an initialized client with
   c equal to the current id, or c omitted and a current id present, it does
   not initialize, leaves the in-memory context as it was and returns the
   current id. *)
C12_EnsureInitializes ==
    [][ op'.name = "ensure" =>
          LET c == ClientOf(tabs[op'.tab])
              current == CSGetConversationId(c.context)
              given == op'.conversationId
          IN  /\ op'.initializes <=>
                    \/ ~c.initialized
                    \/ ~Falsy(given) /\ given # current
                    \/ Falsy(current)
              /\ (c.initialized /\ ~Falsy(current) /\ (Falsy(given) \/ given = current))
                    => /\ ~op'.initializes
                       /\ tabs'[op'.tab].context = c.context
                       /\ op'.id = current ]_storeVars

C12_Witness ==
    /\ op.name = "ensure"
    /\ ~op.initializes
    /\ Falsy(op.conversationId)
    /\ op.id = Conv2
    /\ Len(tabs[op.tab].context.documentContext) > 0

\* a handler of the hook changed the context: its add returned, or its remove removed
Mutated ==
    \/ op.name = "select" /\ op.notified
    \/ op.name = "removeSelected" /\ op.removed

(* C13: whenever addDocumentToContext or removeDocumentFromContext changes
   the context on behalf of a UI action made for conversation C, the client
   is initialized and its current conversation is C at that moment, whatever
   other calls on the shared client ran while the action was suspended. *)
C13_MutatesOwnConversation ==
    Mutated => /\ tabs[op.tab].initialized
               /\ op.id = op.conversationId

(* C14: addDocumentToContext called with empty or missing content throws
   before any effect: the in-memory context is unchanged, no storage write
   is issued and no change notification is published. *)
C14_EmptyContentRejected ==
    [][ (op'.name = "add" /\ Falsy(op'.document.content))
          => /\ op'.threw
             /\ op'.error = "EmptyContent"
             /\ tabs'[op'.tab].context = tabs[op'.tab].context
             /\ store' = store
             /\ op'.writes = <<>>
             /\ ~op'.notified ]_storeVars

C14_Witness ==
    /\ op.name = "add"
    /\ op.document.content = Undefined
    /\ op.threw
    /\ tabs[op.tab].initialized
    /\ Len(tabs[op.tab].context.documentContext) > 0

\* handleDocumentSelect ran to its end for a document the provider had no text for
FetchGaveNothing ==
    /\ op.name = "select"
    /\ op.document # NoCtx
    /\ (~op.fetched \/ Falsy(provider[DocOfId(op.document.documentId)]))

(* C15: in handleDocumentSelect, when the provider fetch returns null, throws
   or returns a text of length zero, the failure is surfaced to the caller
   and no document is added to the documentContext, in memory or in storage. *)
C15_FetchFailureAddsNothing ==
    [][ FetchGaveNothing'
          => /\ op'.toast = "error"
             /\ op'.threw
             /\ store' = store
             /\ tabs'[op'.tab].context = tabs[op'.tab].context ]_storeVars

C15_Witness ==
    /\ FetchGaveNothing
    /\ op.fetched
    /\ op.error = "FetchFailed"
    /\ Len(tabs[op.tab].context.documentContext) > 0

\* handleDocumentSelect ran to its end and its addDocumentToContext returned
AddReturned == op.name = "select" /\ op.document # NoCtx /\ op.notified

\* the context read back (op.ret) lacks the document, or holds it without content
NotReadBack ==
    \/ ~HasDocument(op.ret, op.document.documentId)
    \/ Falsy(FindDocument(op.ret, op.document.documentId).content)

(* C16: in handleDocumentSelect, after addDocumentToContext returned, the
   context is read back; if the document is absent from it, or present with
   empty content, the operation ends with a failure surfaced to the caller
   and never with the success outcome. *)
C16_AddVerified ==
    (AddReturned /\ NotReadBack)
        => /\ op.toast = "error"
           /\ op.threw
           /\ op.error \in {"AddVerificationFailed", "TypeError"}

C16_Witness ==
    /\ AddReturned
    /\ op.ret # NoCtx
    /\ ~HasDocument(op.ret, op.document.documentId)
    /\ HasDocument(op.ret, DocIdOf("d3"))

(* C17: in handleRemoveDocument, after removeDocumentFromContext the context
   is read back; if the document is still in it the operation surfaces a
   failure and leaves the list of selected documents as it was; success is
   reported only when the context read back does not hold the document. *)
C17_RemovalVerified ==
    [][ op'.name = "removeSelected"
          => /\ HasDocument(op'.ret, op'.document.documentId)
                   => /\ op'.toast = "error"
                      /\ tabs'[op'.tab].selectedDocuments = tabs[op'.tab].selectedDocuments
             /\ op'.toast = "success"
                   => ~HasDocument(op'.ret, op'.document.documentId) ]_storeVars

C17_Witness ==
    /\ op.name = "removeSelected"
    /\ HasDocument(op.ret, op.document.documentId)
    /\ op.toast = "error"
    /\ Selected(tabs[op.tab], DocOfId(op.document.documentId))

(* C18: of two calls removeDocumentFromContext(id) in a row, with no other
   operation in between, the second returns false, leaves the in-memory and
   the persisted context as the first call left them, and publishes no
   change notification. *)
C18_SecondRemoveIsNoop ==
    [][ (op'.name = "removeDocument" /\ op'.after \in {"removed", "notRemoved"})
          => /\ ~op'.removed
             /\ tabs'[op'.tab].context = tabs[op'.tab].context
             /\ store' = store
             /\ ~op'.notified ]_storeVars

C18_Witness ==
    /\ op.name = "removeDocument"
    /\ op.after = "removed"
    /\ ~op.removed
    /\ MainKey(tabs[op.tab].context.conversationId) \in DOMAIN store

\* an add reached the client: addDocumentToContext called directly, or by
\* handleDocumentSelect after its fetch gave a text
AddCalled ==
    \/ op.name = "add"
    \/ op.name = "select" /\ op.document # NoCtx /\ op.error # "FetchFailed"

(* C19: adding a document whose documentId is already in the conversation's
   documentContext leaves the context, in memory and persisted, unchanged and
   signals the rejection to the caller, also when the list of selected
   documents does not hold that document. *)
C19_DuplicateRejected ==
    [][ (AddCalled' /\ HasDocument(tabs[op'.tab].context, op'.document.documentId))
          => /\ op'.threw
             /\ op'.name = "select" => op'.toast = "error"
             /\ tabs'[op'.tab].context = tabs[op'.tab].context
             /\ store' = store
             /\ op'.writes = <<>> ]_storeVars

C19_Witness ==
    /\ op.name = "select"
    /\ op.error = "Duplicate"
    /\ op.toast = "error"
    /\ HasDocument(tabs[op.tab].context, op.document.documentId)
    /\ MainKey(tabs[op.tab].context.conversationId) \in DOMAIN store

(* C20: in every reachable state the documentContext of each tab's active
   conversation, and of every persisted conversation entry, holds no two
   entries with the same documentId, whatever the order of the add and remove
   actions, also when one document is selected twice before the first add
   has completed. *)
C20_UniqueDocumentIds ==
    /\ \A t \in Tabs :
          tabs[t].context # NoCtx => UniqueIds(tabs[t].context.documentContext)
    /\ \A k \in DOMAIN store :
          store[k].kind = "json" => UniqueIds(JsonParse(store[k].json).documentContext)

C20_Witness ==
    /\ op.name = "select"
    /\ op.toast = "success"
    /\ \E i \in 1..Len(tabs[op.tab].pending) :
          DocIdOf(tabs[op.tab].pending[i].document) = op.document.documentId
    /\ HasDocument(tabs[op.tab].context, op.document.documentId)

(***************************************************************************)
(* Properties of several tabs on the shared backend.                       *)
(***************************************************************************)
\* the backend accepted a write of the entry, documents included, under the key of
\* conversationId
EntryWritten(writes, conversationId) ==
    \E i \in 1..Len(writes) :
        /\ writes[i].outcome = "ok"
        /\ writes[i].key = MainKey(conversationId)
        /\ writes[i].stage # "bare"

\* a tab's add returned (called directly or by handleDocumentSelect) and its entry was written
AddPersisted ==
    /\ op.name \in {"add", "select"}
    /\ op.notified
    /\ EntryWritten(op.writes, CSGetConversationId(tabs[op.tab].context))

(* C21: if tab A added document X to conversation C and the save of the entry
   was accepted under C's key, a refreshContext that follows in tab B, whose
   own in-memory context is current for C, returns true and leaves B's
   context holding X, although B never added it. *)
C21_MultiTabVisibility ==
    [][ (AddPersisted
           /\ op'.name = "refresh" /\ op'.tab # op.tab
           /\ tabs[op'.tab].initialized
           /\ CSGetConversationId(tabs[op'.tab].context)
                 = CSGetConversationId(tabs[op.tab].context))
          => /\ op'.removed
             /\ HasDocument(tabs'[op'.tab].context, op.document.documentId) ]_storeVars

C21_Witness ==
    /\ op.name = "refresh" /\ op.after = "add"
    /\ op.context # NoCtx
    /\ ~HasDocument(op.context, op.document.documentId)
    /\ EntryWritten(op.writes, op.context.conversationId)
    /\ op.removed
    /\ HasDocument(tabs[op.tab].context, op.document.documentId)

\* the documentIds of the entry persisted for conversationId
StoredDocIds(st, conversationId) ==
    LET k == MainKey(conversationId)
    IN  IF k \in DOMAIN st /\ ~ParseThrows(st[k])
        THEN LET docs == JsonParse(st[k].json).documentContext
             IN  {docs[i].documentId : i \in 1..Len(docs)}
        ELSE {}

(* C22: every mutation is derived from the latest persisted state: when a
   tab's add of document Y returns and its entry is written, every document
   persisted for the conversation before the call (for one, a document X
   that another tab persisted after this tab last read the entry) is still
   in the persisted entry, next to Y. *)
C22_DerivedFromPersisted ==
    [][ AddPersisted'
          => LET conversationId == CSGetConversationId(tabs'[op'.tab].context)
             IN  StoredDocIds(store, conversationId) \cup {op'.document.documentId}
                    \subseteq StoredDocIds(store', conversationId) ]_storeVars

\* the entry a loadContext finds is the context handed to saveContext: the same
\* conversation, history and flags, the same documents in the same order, and, when the
\* full write was accepted, the content of every document that is not over the ceiling
SameEntry(entry, context, writes) ==
    /\ entry # NoCtx
    /\ entry.conversationId = context.conversationId
    /\ entry.messages = context.messages
    /\ entry.modelPreference = context.modelPreference
    /\ entry.metisActive = context.metisActive
    /\ Len(entry.documentContext) = Len(context.documentContext)
    /\ \A i \in 1..Len(context.documentContext) :
          /\ SameButContent(entry.documentContext[i], context.documentContext[i])
          /\ (writes[Len(writes)].stage = "full"
                /\ StrLen(context.documentContext[i].content) <= MaxDocumentSize)
                => entry.documentContext[i].content = context.documentContext[i].content

(* C23: when two tabs add different documents to the same conversation, one
   save after the other (the two handleDocumentSelect calls may overlap),
   the persisted entry is the context the later saveContext wrote: it holds
   the earlier tab's document only if the later tab's context held it, never
   a merge of the two contexts. *)
C23_LastWriterWins ==
    [][ (AddPersisted /\ AddPersisted' /\ op'.tab # op.tab
           /\ op'.document.documentId # op.document.documentId
           /\ CSGetConversationId(op'.context) = CSGetConversationId(op.context))
          => \E entry \in {LoadContext(store', op'.context.conversationId).ret} :
                /\ SameEntry(entry, op'.context, op'.writes)
                /\ HasDocument(entry, op.document.documentId)
                      => HasDocument(op'.context, op.document.documentId) ]_storeVars

C23_Witness ==
    /\ op.name = "select" /\ op.after = "add"
    /\ AddPersisted
    /\ \E t \in Tabs \ {op.tab} :
          \E i \in 1..Len(tabs[t].context.documentContext) :
             /\ tabs[t].context.documentContext[i].documentId # op.document.documentId
             /\ tabs[t].context.documentContext[i].documentId
                   \notin StoredDocIds(store, op.context.conversationId)

(* C24: getModelContext() refreshes from storage before it returns: when
   loadContext finds an entry for the client's current conversation at the
   time of the call, the context returned is that entry, not the in-memory
   copy the tab held, and the call publishes no change notification. *)
C24_GetRefreshesFirst ==
    [][ (op'.name = "get" /\ tabs[op'.tab].context # NoCtx)
          => \E entry \in {LoadContext(store, tabs[op'.tab].context.conversationId).ret} :
                entry # NoCtx => /\ op'.ret = entry
                                 /\ tabs'[op'.tab].context = entry
                                 /\ ~op'.notified ]_storeVars

C24_Witness ==
    /\ op.name = "get"
    /\ op.context # NoCtx /\ op.ret # NoCtx
    /\ op.ret # op.context
    /\ Len(op.context.documentContext) > 0
    /\ Len(op.ret.documentContext) > 0

(***************************************************************************)
(* Properties of the change notifications.                                 *)
(***************************************************************************)
\* the calls that add or remove a document
AddOrRemove == op.name \in {"add", "removeDocument", "select", "removeSelected"}

(* C25: every documentContextUpdated notification published because of a
   document add or a document removal carries a payload that holds the
   documentId of the document added or removed and the action. *)
C25_PayloadNamesDocument ==
    AddOrRemove =>
        \A i \in 1..Len(op.events) :
            /\ PairValue(op.events[i].detail, "documentId") = op.document.documentId
            /\ PairValue(op.events[i].detail, "action") # Undefined

(* C28: in an end-to-end add no documentContextUpdated notification for the
   add is published before the read-back check has found the document with
   non-empty content, and an add whose check fails publishes none. *)
C28_NotifiedAfterVerification ==
    op.name = "select" =>
        /\ \A i \in 1..Len(op.events) : op.events[i].verified
        /\ op.error \in {"AddVerificationFailed", "TypeError"} => op.events = <<>>

(* C26: notifyChange(topic) calls every listener registered for the topic at
   that time, also when one of them throws. *)
C26_AllListenersInvoked ==
    op.name = "notifyChange" =>
        \A i \in 1..Len(listeners[op.fileId]) :
            IsListener(op.invoked, listeners[op.fileId][i])

(* C27: without a storage backend every persistence call is a no-op that
   reports failure and does not throw: saveContext writes nothing,
   loadContext returns null, removeContext returns false; the calls of the
   client go on: an add of a text is applied to the in-memory context, a
   removal returns whether the document was there, getModelContext returns
   the in-memory context. *)
C27_AbsentBackendNoop ==
    ~backend.present =>
        /\ store = EmptyStore
        /\ op.writes = <<>>
        /\ op.name \in {"save", "load", "remove"} => ~op.threw
        /\ op.name = "load" => op.ret = NoCtx
        /\ op.name = "remove" => ~op.removed
        /\ op.name = "add" =>
              /\ op.error \in {"none", "EmptyContent", "Duplicate", "NotInitialized"}
              /\ op.error = "none" =>
                    HasDocument(tabs[op.tab].context, op.document.documentId)
        /\ op.name = "removeDocument" =>
              /\ ~HasDocument(tabs[op.tab].context, op.document.documentId)
              /\ op.removed = op.notified
        /\ op.name = "get" => op.ret = op.context /\ tabs[op.tab].context = op.context

C27_Witness ==
    /\ ~backend.present
    /\ op.name = "get"
    /\ op.ret # NoCtx
    /\ Len(op.ret.documentContext) = 2
    /\ store = EmptyStore

(***************************************************************************)
(* Properties of a failed add and of the chunking fallback.                *)
(***************************************************************************)
\* handleDocumentSelect ran to its end and threw
SelectFailed == op.name = "select" /\ op.document # NoCtx /\ op.threw

(* C29: after handleDocumentSelect ended with a failure (of the fetch, of the
   add or of the verification) the document is neither in the list of
   selected documents nor in the documentContext of the tab's context. *)
C29_FailedAddRolledBack ==
    SelectFailed =>
        /\ ~Selected(tabs[op.tab], DocOfId(op.document.documentId))
        /\ ~HasDocument(tabs[op.tab].context, op.document.documentId)

\* the chunking saveContext ended in its fallback: a write was rejected for capacity
\* and the minimal write that followed was accepted
MinimalSaved ==
    /\ variant = "chunking"
    /\ Len(op.writes) >= 2
    /\ op.writes[Len(op.writes) - 1].outcome = "quota"
    /\ op.writes[Len(op.writes)].stage = "minimal"
    /\ op.writes[Len(op.writes)].outcome = "ok"

(* C30: in the chunking service, after a saveContext(id, ctx) whose write was
   rejected for capacity and whose minimal write succeeded, loadContext(id)
   returns the minimal context: the documents of ctx, each with the
   placeholder as its content; not null and not an older entry. *)
C30_MinimalContextLoaded ==
    (op.name = "saveload" /\ MinimalSaved) =>
        /\ op.ret # NoCtx
        /\ Len(op.ret.documentContext) = Len(InDocs)
        /\ \A i \in 1..Len(InDocs) :
              /\ SameButContent(op.ret.documentContext[i], InDocs[i])
              /\ op.ret.documentContext[i].content = TooLargePlaceholder(InDocs[i].content)

(***************************************************************************)
(* Further properties of the client and of the storage services.           *)
(***************************************************************************)
(* C39: the client publishes a documentContextUpdated notification only from
   an operation that reported a change: an addDocumentToContext that returned
   without error, a removeDocumentFromContext that returned true, a
   refreshContext that returned true; an add that throws, a remove or a
   refresh that returns false, and getModelContext publish none. *)
C39_NotifiesOnlyOnChange ==
    /\ op.name = "add" => (op.events # <<>> => ~op.threw)
    /\ op.name = "removeDocument" => (op.events # <<>> => op.removed)
    /\ op.name = "refresh" => (op.events # <<>> => op.removed)
    /\ op.name = "get" => op.events = <<>>

C39_Witness ==
    /\ op.name = "refresh"
    /\ op.context # NoCtx
    /\ Len(op.context.documentContext) > 0
    /\ ~op.removed
    /\ op.events = <<>>

\* the keys of the chunking service that belong to a conversation
KeysOfC(conversationId) ==
    {KeyC(conversationId), MinimalKeyC(conversationId)}
    \cup { DocKeyC(conversationId, DocIdOf(d)) : d \in DocIds }

(* C35: in the chunking service, after any run of saveContext calls for a
   conversation followed by a removeContext of it whose deletes took effect,
   no key of the conversation remains in storage: neither the main key, nor
   a <prefix><id>_doc_<documentId> key, nor the <prefix><id>_minimal key. *)
C35_NoKeyRemains ==
    (op.name = "remove" /\ variant = "chunking" /\ op.removed
        /\ backend.present /\ backend.mode # "removeNoop")
    => KeysOfC(op.conversationId) \cap DOMAIN store = {}

(* C36: conversations are isolated in storage: for distinct conversation ids
   A and B, neither saveContext(A, ...) nor removeContext(A) changes what
   loadContext(B) returns, in both services. *)
C36_ConversationsIsolated ==
    [][ op'.name \in {"save", "remove"}
          => \A b \in StoreConvIds \ {op'.conversationId} :
                LoadContext(store', b).ret = LoadContext(store, b).ret ]_storeVars

(* C36 for the truncating service alone. *)
C36_IsolatedT ==
    [][ (op'.name \in {"save", "remove"} /\ variant = "truncating")
          => \A b \in StoreConvIds \ {op'.conversationId} :
                LoadContext(store', b).ret = LoadContext(store, b).ret ]_storeVars

(* C37: saveContext does not modify the context object the caller passed:
   after a save that succeeded, truncated, fell back to placeholders or to
   the document-less entry, or failed altogether, the caller's context has
   the documents and the contents it had before the call. *)
C37_CallerContextKept ==
    op.name = "save" => op.argument = op.context

C37_Witness ==
    /\ op.name = "save"
    /\ variant = "truncating"
    /\ \E i \in 1..Len(op.context.documentContext) :
          StrLen(op.context.documentContext[i].content) > MaxDocumentSize
    /\ Len(op.writes) = 2 /\ op.writes[2].outcome = "ok"
    /\ op.argument = op.context

(* C38: re-saving is stable in the truncating service: when the writes are
   accepted, saving a context, loading it, saving what was loaded and loading
   again returns what the first load returned; a truncated document is not
   cut further and gets no second truncation marker. *)
C38_ResaveStable ==
    (op.name = "resaveload" /\ variant = "truncating" /\ op.after = "accepted"
        /\ op.writes # <<>> /\ op.writes[1].outcome = "ok")
    => op.ret = op.context

C38_Witness ==
    /\ op.name = "resaveload"
    /\ variant = "truncating"
    /\ op.after = "accepted"
    /\ op.writes # <<>> /\ op.writes[1].outcome = "ok"
    /\ \E i \in 1..Len(op.context.documentContext) :
          op.context.documentContext[i].content = Concat(AtMaxContent, TruncationMarker)
    /\ op.ret = op.context

(* C31: change notification handling quiesces: from a documentContextUpdated
   notification, with the document-loading observer subscribed and a context
   persisted for the conversation, the observer's reloads publish only
   finitely many further notifications, so that eventually no notification
   is left to handle. *)
C31_NotificationsQuiesce ==
    (op.events # <<>> /\ LoadContext(store, tabs["A"].conversationId).ret # NoCtx)
       ~> (op.events = <<>>)

(* C32: the documents sendMessage(message, C, ...) sends for a conversation
   id C come from the context of conversation C, also when another call
   switches the shared client's conversation between sendMessage's
   initializeContext(C) and its read of the context. *)
C32_SendsOwnDocuments ==
    (op.name = "sendMessage" /\ op.ret # NoCtx /\ Len(op.ret.documentContext) > 0)
    => op.ret.conversationId = op.conversationId

(* C33: when ensureContextInitialized is called on an uninitialized client
   while an earlier call of it still awaits initializeContext, the second
   call does not run initializeContext again; and a call resolves to the
   conversation id that is the client's current one. *)
C33_InitializesOnce ==
    [][ /\ (op'.name = "ensureStarted" /\ ~tabs[op'.tab].initialized
              /\ \E i \in 1..Len(tabs[op'.tab].awaiting) :
                    tabs[op'.tab].awaiting[i].caller = "ensure")
           => ~op'.initializes
        /\ (op'.name = "ensured"
              /\ \A i \in 1..Len(tabs[op'.tab].awaiting) :
                    tabs[op'.tab].awaiting[i].caller = "ensure")
           => op'.id = CSGetConversationId(tabs'[op'.tab].context) ]_storeVars

(* C34: once removeContext(C) has returned true, getModelContext() on a
   client whose current conversation is C returns none of the removed
   conversation's documents. *)
C34_RemovedNotReturned ==
    [][ (op.name = "remove" /\ op.removed /\ op'.name = "get"
            /\ CSGetConversationId(tabs[op'.tab].context) = op.conversationId)
          => (op'.ret = NoCtx \/ op'.ret.documentContext = <<>>) ]_storeVars

====
